---------------------------- MODULE Spec2Model ----------------------------
(***************************************************************************)
(* Verification model of the code-review pipeline:                         *)
(*   - GitAnalyzer._parse_diff / _detect_change_type   (git_analyzer.py)   *)
(*   - LLMReviewer._parse_review_response, ReviewIssue (llm_reviewer.py)   *)
(*                                                                         *)
(* Text is modelled as a sequence of one-character strings, so that        *)
(* startswith, split, strip, substring search and int() are computed on    *)
(* the characters as Python computes them.                                 *)
(***************************************************************************)
EXTENDS Integers, Sequences, FiniteSets, TLC

(***************************************************************************)
(* Bounds of the model.                                                    *)
(***************************************************************************)
MaxDiffLines == 3
MaxRespLines == 4

(***************************************************************************)
(* Python string primitives on character sequences.                        *)
(***************************************************************************)
NL == "\n"

\* str.startswith(prefix)
StartsWith(s, p) == Len(s) >= Len(p) /\ SubSeq(s, 1, Len(p)) = p

\* str.find(sub) + 1: the leftmost 1-based index of sub in s, 0 when absent
Find(s, p) ==
    LET I == {i \in 1..(Len(s) - Len(p) + 1) : SubSeq(s, i, i + Len(p) - 1) = p}
    IN  IF I = {} THEN 0 ELSE CHOOSE i \in I : \A j \in I : i <= j

\* sub in s
Contains(s, p) == Find(s, p) # 0

\* str.split(sep) for a one-character separator: the pieces between the
\* occurrences of sep, in order
Split(s, sep) ==
    LET P == {i \in 1..Len(s) : s[i] = sep}
        n == Cardinality(P)
        cut(k) == IF k = 0 THEN 0
                  ELSE IF k = n + 1 THEN Len(s) + 1
                  ELSE CHOOSE i \in P : Cardinality({j \in P : j <= i}) = k
    IN  [k \in 1..(n + 1) |-> SubSeq(s, cut(k - 1) + 1, cut(k) - 1)]

RECURSIVE Join(_, _)
\* sep.join(parts)
Join(parts, sep) ==
    IF Len(parts) = 0 THEN <<>>
    ELSE IF Len(parts) = 1 THEN parts[1]
    ELSE parts[1] \o <<sep>> \o Join(Tail(parts), sep)

Digits == {"0", "1", "2", "3", "4", "5", "6", "7", "8", "9"}

DigitVal(c) ==
    CASE c = "0" -> 0 [] c = "1" -> 1 [] c = "2" -> 2 [] c = "3" -> 3
      [] c = "4" -> 4 [] c = "5" -> 5 [] c = "6" -> 6 [] c = "7" -> 7
      [] c = "8" -> 8 [] c = "9" -> 9

RECURSIVE DigitsVal(_)
\* the value of a non-empty run of decimal digits
DigitsVal(ds) ==
    IF Len(ds) = 0 THEN 0
    ELSE 10 * DigitsVal(SubSeq(ds, 1, Len(ds) - 1)) + DigitVal(ds[Len(ds)])

\* greedy \d*: the index just after the maximal run of digits starting at i
DigitRunEnd(s, i) ==
    LET E == {j \in i..(Len(s) + 1) : j > Len(s) \/ s[j] \notin Digits}
    IN  IF i > Len(s) THEN i ELSE CHOOSE j \in E : \A k \in E : j <= k

\* int(str) raises ValueError for a literal of more decimal digits than
\* CPython's sys.int_info.default_max_str_digits
INT_MAX_STR_DIGITS == 4300
IntRaisesOnDigits(ds) == Len(ds) > INT_MAX_STR_DIGITS

(***************************************************************************)
(* Literals of git_analyzer.py.                                            *)
(***************************************************************************)
DIFF_GIT      == <<"d","i","f","f"," ","-","-","g","i","t">>
PLUS3         == <<"+","+","+">>
MINUS3        == <<"-","-","-">>
PLUS3_B       == <<"+","+","+"," ","b","/">>
AT2           == <<"@","@">>
NEW_FILE_MODE == <<"n","e","w"," ","f","i","l","e"," ","m","o","d","e">>
DELETED_FILE_MODE ==
    <<"d","e","l","e","t","e","d"," ","f","i","l","e"," ","m","o","d","e">>

\* class ChangeType(Enum): the .value strings
ChangeType == [ADDED |-> "added", MODIFIED |-> "modified", DELETED |-> "deleted"]


\* the values FileChange.__post_init__ accepts
valid_types == {ChangeType.ADDED, ChangeType.MODIFIED, ChangeType.DELETED}

\* s[i..] begins with p
At(s, i, p) == i >= 1 /\ i + Len(p) - 1 <= Len(s) /\ SubSeq(s, i, i + Len(p) - 1) = p

\* re.search(r'\+\+\+ b/(.*)', line): group(1), or NoMatch
NoMatch == [matched |-> FALSE, group |-> <<>>]
PathSearch(line) ==
    LET i == Find(line, PLUS3_B)
    IN  IF i = 0 THEN NoMatch
        ELSE [matched |-> TRUE, group |-> SubSeq(line, i + Len(PLUS3_B), Len(line))]

\* the pattern r'@@ -\d+,?\d* \+(\d+),?\d* @@' matched at index i: group(1), or NoMatch
HunkMatchAt(s, i) ==
    LET a == i + 4                                           \* after '@@ -'
        b == DigitRunEnd(s, a)                               \* \d+
        c == IF b <= Len(s) /\ s[b] = "," THEN b + 1 ELSE b  \* ,?
        d == DigitRunEnd(s, c)                               \* \d*
        e == d + 2                                           \* after ' +'
        f == DigitRunEnd(s, e)                               \* (\d+)
        g == IF f <= Len(s) /\ s[f] = "," THEN f + 1 ELSE f  \* ,?
        h == DigitRunEnd(s, g)                               \* \d*
    IN  IF /\ At(s, i, <<"@","@"," ","-">>)
           /\ b > a
           /\ At(s, d, <<" ","+">>)
           /\ f > e
           /\ At(s, h, <<" ","@","@">>)
        THEN [matched |-> TRUE, group |-> SubSeq(s, e, f - 1)]
        ELSE NoMatch

\* re.search of the hunk pattern: the leftmost match
HunkSearch(line) ==
    LET I == {i \in 1..Len(line) : HunkMatchAt(line, i).matched}
    IN  IF I = {} THEN NoMatch
        ELSE HunkMatchAt(line, CHOOSE i \in I : \A j \in I : i <= j)

\* GitAnalyzer._detect_change_type
_detect_change_type(diff_lines) ==
    LET diff_text == Join(diff_lines, NL)
    IN  IF Contains(diff_text, NEW_FILE_MODE) THEN ChangeType.ADDED
        ELSE IF Contains(diff_text, DELETED_FILE_MODE) THEN ChangeType.DELETED
        ELSE ChangeType.MODIFIED

\* the FileChange dataclass
FileChange(path, change_type, additions, deletions, line_numbers, diff) ==
    [path |-> path, change_type |-> change_type, additions |-> additions,
     deletions |-> deletions, line_numbers |-> line_numbers, diff |-> diff]

\* FileChange.__post_init__ raises ValueError unless this holds
PostInitAccepts(fc) == fc.change_type \in valid_types

\* Python None and truthiness of an Optional[str]
None == [none |-> TRUE, s |-> <<>>]
Some(s) == [none |-> FALSE, s |-> s]
Truthy(o) == ~o.none /\ o.s # <<>>


(***************************************************************************)
(* State.                                                                  *)
(*   diff_text .. pc_diff : one call of GitAnalyzer._parse_diff            *)
(*   change_section        : history variable; for each record of changes  *)
(*                           the number of 'diff --git' lines read before  *)
(*                           the lines it was accumulated from             *)
(*   response .. pc_resp   : one call of                                   *)
(*                           LLMReviewer._parse_review_response            *)
(*   g_*                   : one call of GitAnalyzer.get_changes           *)
(*   contexts .. rv_exc    : one call of LLMReviewer.review                *)
(*   sum_* , pc_sum        : one call of LLMReviewer._generate_summary     *)
(*   f_* , pc_fmt          : one call of OutputFormatter.format            *)
(*   m_* , exit_code       : one run of main() in review.py                *)
(*   k_*                   : the construction of one LLMReviewer and the   *)
(*                           chat-completion requests it sends             *)
(*   cb_*                  : one call of ContextBuilder.build_contexts     *)
(*   c_*                   : one ChatBot, its construction and the calls   *)
(*                           of chat and reset made on it                  *)
(***************************************************************************)
VARIABLES
    diff_text, diff_lines, pos, changes, current_file, current_additions,
    current_deletions, current_line_numbers, current_diff, pc_diff,
    change_section,
    response, file_path, resp_lines, rpos, issues, current_issue, pc_resp,
    g_pc, g_target, g_base, g_runs, g_failed, g_changes, g_exc,
    contexts, rv_pc, rv_i, all_issues, llm_calls, file_outcome, rv_result,
    rv_exc,
    sum_issues, sum_files, sum_out, pc_sum,
    f_result, f_type, f_out, f_exc, pc_fmt,
    m_pc, m_format, m_output, m_stdout, m_file, m_exc, exit_code,
    k_pc, k_env, k_arg, k_temperature, k_max_tokens, k_self, k_client,
    k_requests, k_exc,
    cb_pc, cb_changes, cb_full, cb_files, cb_i, cb_contexts, cb_reads, cb_exc,
    c_pc, c_system, c_history, c_call, c_requests, c_ops

diffVars ==
    <<diff_text, diff_lines, pos, changes, current_file, current_additions,
      current_deletions, current_line_numbers, current_diff, pc_diff,
      change_section>>

respVars ==
    <<response, file_path, resp_lines, rpos, issues, current_issue, pc_resp>>

gitVars == <<g_pc, g_target, g_base, g_runs, g_failed, g_changes, g_exc>>

reviewVars ==
    <<contexts, rv_pc, rv_i, all_issues, llm_calls, file_outcome, rv_result,
      rv_exc>>

sumVars == <<sum_issues, sum_files, sum_out, pc_sum>>

fmtVars == <<f_result, f_type, f_out, f_exc, pc_fmt>>

mainVars == <<m_pc, m_format, m_output, m_stdout, m_file, m_exc, exit_code>>

pipeVars == <<gitVars, reviewVars, sumVars, fmtVars, mainVars>>

cfgVars ==
    <<k_pc, k_env, k_arg, k_temperature, k_max_tokens, k_self, k_client,
      k_requests, k_exc>>

ctxVars ==
    <<cb_pc, cb_changes, cb_full, cb_files, cb_i, cb_contexts, cb_reads,
      cb_exc>>

chatVars == <<c_pc, c_system, c_history, c_call, c_requests, c_ops>>

extVars == <<cfgVars, ctxVars, chatVars>>

vars == <<diffVars, respVars, extVars, pipeVars, extVars>>

\* no exception is propagating; no value has been returned
NoExc == "none"
Unset == [none |-> TRUE]

\* an exception with the parts of its message; no exception raised
Raised(type, msg) == [type |-> type, msg |-> msg]
NoRaise == Raised(NoExc, <<>>)

\* a formatted output: the lines of a text or the object given to json.dumps
Output(kind, body) == [kind |-> kind, body |-> body]
NoOutput == Output("none", <<>>)

\* no call of get_changes, review, _generate_summary or format is running,
\* and main has not started
GitIdle ==
    /\ g_pc = "idle" /\ g_target = <<>> /\ g_base = None
    /\ g_runs = <<>> /\ g_failed = <<>>
    /\ g_changes = Unset /\ g_exc = NoRaise

ReviewIdle ==
    /\ contexts = <<>> /\ rv_pc = "idle" /\ rv_i = 0 /\ all_issues = <<>>
    /\ llm_calls = 0 /\ file_outcome = <<>> /\ rv_result = Unset
    /\ rv_exc = NoExc

SumIdle ==
    /\ sum_issues = <<>> /\ sum_files = 0 /\ sum_out = Unset /\ pc_sum = "idle"

FmtIdle ==
    /\ f_result = Unset /\ f_type = "" /\ f_out = NoOutput /\ f_exc = NoRaise
    /\ pc_fmt = "idle"

MainIdle ==
    /\ m_pc = "idle" /\ m_format = "" /\ m_output = FALSE
    /\ m_stdout = NoOutput /\ m_file = NoOutput /\ m_exc = NoExc
    /\ exit_code = -1

\* no LLMReviewer is being constructed, no call of build_contexts is running
\* and no ChatBot exists
CfgIdle ==
    /\ k_pc = "idle" /\ k_env = <<>> /\ k_arg = None
    /\ k_temperature = 0 /\ k_max_tokens = 0
    /\ k_self = Unset /\ k_client = FALSE /\ k_requests = <<>>
    /\ k_exc = NoExc

CtxIdle ==
    /\ cb_pc = "idle" /\ cb_changes = <<>> /\ cb_full = FALSE
    /\ cb_files = {} /\ cb_i = 0 /\ cb_contexts = <<>> /\ cb_reads = <<>>
    /\ cb_exc = NoExc

\* the last call made on the ChatBot: the operation, the history and the
\* number of requests sent before it, whether its arguments were valid, and
\* the exception it raised
Call(op, before, requests, valid, exc) ==
    [op |-> op, before |-> before, requests |-> requests, valid |-> valid,
     exc |-> exc]
NoCall == Call("none", <<>>, 0, TRUE, NoExc)

ChatIdle ==
    /\ c_pc = "idle" /\ c_system = None /\ c_history = <<>>
    /\ c_call = NoCall /\ c_requests = 0 /\ c_ops = 0

ExtIdle == CfgIdle /\ CtxIdle /\ ChatIdle

PipeIdle ==
    GitIdle /\ ReviewIdle /\ SumIdle /\ FmtIdle /\ MainIdle /\ ExtIdle

\* a Python dict as a function on its keys: {} , d.get(k, default), d[k] = v
EmptyDict == [k \in {} |-> <<>>]
DictGet(d, k, default) == IF k \in DOMAIN d THEN d[k] ELSE default
DictSet(d, k, v) == [x \in (DOMAIN d) \cup {k} |-> IF x = k THEN v ELSE d[x]]

\* no call of _parse_review_response is running
RespIdle ==
    /\ response = <<>>
    /\ file_path = <<>>
    /\ resp_lines = <<>>
    /\ rpos = 0
    /\ issues = <<>>
    /\ current_issue = EmptyDict
    /\ pc_resp = "idle"

(***************************************************************************)
(* Inputs of _parse_diff: every text of at most MaxDiffLines lines drawn   *)
(* from these lines, joined by newlines.                                   *)
(***************************************************************************)
L_header   == DIFF_GIT \o <<" ","x">>                        \* diff --git x
L_path     == PLUS3_B \o <<"x">>                             \* +++ b/x
L_devnull  == PLUS3 \o <<" ","/","d","e","v","/","n","u","l","l">>
L_old      == MINUS3 \o <<" ","a","/","x">>                  \* --- a/x
L_newmode  == NEW_FILE_MODE
L_delmode  == DELETED_FILE_MODE
L_hunk     == <<"@","@"," ","-","1",",","2"," ","+","3"," ","@","@">>
L_badhunk  == <<"@","@"," ","x">>
L_add      == <<"+","a">>
L_add2     == <<"+","b">>
L_del      == <<"-">> \o DELETED_FILE_MODE                   \* -deleted file mode

DiffLineCatalogue ==
    {L_header, L_path, L_devnull, L_old, L_newmode, L_delmode, L_hunk,
     L_badhunk, L_add, L_add2, L_del}

SeqsUpTo(S, n) == UNION {[1..k -> S] : k \in 0..n}

DiffInputs == {Join(ls, NL) : ls \in SeqsUpTo(DiffLineCatalogue, MaxDiffLines)}

(***************************************************************************)
(* GitAnalyzer._parse_diff, one step per iteration of its loop.            *)
(***************************************************************************)
IsHeader(line) == StartsWith(line, DIFF_GIT)

\* the accumulators reset at a 'diff --git' line (current_file is not)
ResetKeepAdditions(acc) ==
    [acc EXCEPT !.deletions = <<>>, !.line_numbers = <<>>, !.diff = <<>>]

ResetAccumulators(acc) ==
    [acc EXCEPT !.additions = <<>>, !.deletions = <<>>,
                !.line_numbers = <<>>, !.diff = <<>>]

\* which arm of the if/elif chain a line takes
Branch(line) ==
    IF StartsWith(line, PLUS3) THEN "path"
    ELSE IF StartsWith(line, AT2) THEN "hunk"
    ELSE IF StartsWith(line, <<"+">>) /\ ~StartsWith(line, PLUS3) THEN "add"
    ELSE IF StartsWith(line, <<"-">>) /\ ~StartsWith(line, MINUS3) THEN "del"
    ELSE "other"

\* the if/elif chain applied to the accumulators
Chain(line, acc) ==
    LET b == Branch(line)
        withDiff == [acc EXCEPT !.diff = Append(acc.diff, line)]
    IN  CASE b = "path" ->
                LET m == PathSearch(line)
                IN  IF m.matched THEN [withDiff EXCEPT !.file = Some(m.group)]
                    ELSE withDiff
          [] b = "hunk" ->
                LET m == HunkSearch(line)
                IN  IF m.matched
                    THEN [withDiff EXCEPT !.line_numbers =
                              Append(acc.line_numbers, DigitsVal(m.group))]
                    ELSE withDiff
          [] b = "add" ->
                [withDiff EXCEPT !.additions = Append(acc.additions, Tail(line))]
          [] b = "del" ->
                [withDiff EXCEPT !.deletions = Append(acc.deletions, Tail(line))]
          [] OTHER -> withDiff

\* line 164: int(match.group(1)) raises ValueError, which nothing catches
ChainRaises(line) ==
    /\ Branch(line) = "hunk"
    /\ HunkSearch(line).matched
    /\ IntRaisesOnDigits(HunkSearch(line).group)

Acc ==
    [file |-> current_file, additions |-> current_additions,
     deletions |-> current_deletions, line_numbers |-> current_line_numbers,
     diff |-> current_diff]

SetAcc(acc) ==
    /\ current_file' = acc.file
    /\ current_additions' = acc.additions
    /\ current_deletions' = acc.deletions
    /\ current_line_numbers' = acc.line_numbers
    /\ current_diff' = acc.diff

\* the FileChange built from the accumulators
CurrentChange ==
    FileChange(current_file.s, _detect_change_type(current_diff),
               current_additions, current_deletions, current_line_numbers,
               Join(current_diff, NL))

\* number of 'diff --git' lines among the first n lines
RECURSIVE HeadersIn(_, _)
HeadersIn(ls, n) ==
    IF n = 0 THEN 0
    ELSE HeadersIn(ls, n - 1) + (IF IsHeader(ls[n]) THEN 1 ELSE 0)

\* the parser's variables before any call
DiffFresh ==
    /\ diff_lines = <<>>
    /\ pos = 0
    /\ changes = <<>>
    /\ change_section = <<>>
    /\ current_file = None
    /\ current_additions = <<>>
    /\ current_deletions = <<>>
    /\ current_line_numbers = <<>>
    /\ current_diff = <<>>

\* no call of _parse_diff is running
DiffIdle == diff_text = <<>> /\ DiffFresh /\ pc_diff = "idle"

DiffInit ==
    /\ diff_text \in DiffInputs
    /\ diff_lines = <<>>
    /\ pos = 0
    /\ changes = <<>>
    /\ change_section = <<>>
    /\ current_file = None
    /\ current_additions = <<>>
    /\ current_deletions = <<>>
    /\ current_line_numbers = <<>>
    /\ current_diff = <<>>
    /\ pc_diff = "start"

\* lines 129-136: the locals, and diff_text.split('\n')
ParseDiffBegin ==
    /\ pc_diff = "start"
    /\ diff_lines' = Split(diff_text, NL)
    /\ pos' = 1
    /\ pc_diff' = "loop"
    /\ UNCHANGED <<diff_text, changes, change_section, current_file,
                   current_additions, current_deletions, current_line_numbers,
                   current_diff>>
    /\ UNCHANGED <<respVars, pipeVars, extVars>>

\* an iteration on a 'diff --git' line: flush, reset, then the chain
ParseHeaderLine ==
    /\ pc_diff = "loop" /\ pos <= Len(diff_lines)
    /\ IsHeader(diff_lines[pos])
    /\ IF Truthy(current_file) /\ ~PostInitAccepts(CurrentChange)
       THEN /\ pc_diff' = "raised"
            /\ UNCHANGED <<diff_text, diff_lines, pos, changes, change_section,
                           current_file, current_additions, current_deletions,
                           current_line_numbers, current_diff>>
       ELSE /\ changes' = IF Truthy(current_file)
                          THEN Append(changes, CurrentChange) ELSE changes
            /\ change_section' =
                   IF Truthy(current_file)
                   THEN Append(change_section, HeadersIn(diff_lines, pos - 1))
                   ELSE change_section
            /\ SetAcc(Chain(diff_lines[pos], ResetAccumulators(Acc)))
            /\ pos' = pos + 1
            /\ UNCHANGED <<diff_text, diff_lines, pc_diff>>
    /\ UNCHANGED <<respVars, pipeVars, extVars>>

\* an iteration on any other line, by the arm of the chain it takes
ParseLine(kind) ==
    /\ pc_diff = "loop" /\ pos <= Len(diff_lines)
    /\ ~IsHeader(diff_lines[pos])
    /\ Branch(diff_lines[pos]) = kind
    /\ IF ChainRaises(diff_lines[pos])
       THEN /\ pc_diff' = "raised"
            /\ UNCHANGED <<pos, current_file, current_additions,
                           current_deletions, current_line_numbers,
                           current_diff>>
       ELSE /\ SetAcc(Chain(diff_lines[pos], Acc))
            /\ pos' = pos + 1
            /\ UNCHANGED pc_diff
    /\ UNCHANGED <<diff_text, diff_lines, changes, change_section>>
    /\ UNCHANGED <<respVars, pipeVars, extVars>>

ParsePathLine    == ParseLine("path")
ParseHunkLine    == ParseLine("hunk")
ParseAddedLine   == ParseLine("add")
ParseRemovedLine == ParseLine("del")
ParseOtherLine   == ParseLine("other")

\* lines 178-189: flush the last file and return
ParseDiffEnd ==
    /\ pc_diff = "loop" /\ pos > Len(diff_lines)
    /\ IF Truthy(current_file) /\ ~PostInitAccepts(CurrentChange)
       THEN /\ pc_diff' = "raised"
            /\ UNCHANGED <<changes, change_section>>
       ELSE /\ changes' = IF Truthy(current_file)
                          THEN Append(changes, CurrentChange) ELSE changes
            /\ change_section' =
                   IF Truthy(current_file)
                   THEN Append(change_section, HeadersIn(diff_lines, Len(diff_lines)))
                   ELSE change_section
            /\ pc_diff' = "done"
    /\ UNCHANGED <<diff_text, diff_lines, pos, current_file, current_additions,
                   current_deletions, current_line_numbers, current_diff>>
    /\ UNCHANGED <<respVars, pipeVars, extVars>>

DiffNext ==
    \/ ParseDiffBegin
    \/ ParseHeaderLine
    \/ ParsePathLine
    \/ ParseHunkLine
    \/ ParseAddedLine
    \/ ParseRemovedLine
    \/ ParseOtherLine
    \/ ParseDiffEnd

\* one call of _parse_diff, nothing else running
DiffSpecInit == DiffInit /\ RespIdle /\ PipeIdle

SpecDiff == DiffSpecInit /\ [][DiffNext]_vars

(***************************************************************************)
(* The same parser on texts that hold a hunk header whose new-file line    *)
(* number has one digit more than int() converts.                          *)
(***************************************************************************)
MaxLongDiffLines == 2

\* @@ -1 +99...9 @@ with INT_MAX_STR_DIGITS + 1 nines
L_hugehunk ==
    <<"@","@"," ","-","1"," ","+">>
        \o [i \in 1..(INT_MAX_STR_DIGITS + 1) |-> "9"]
        \o <<" ","@","@">>

LongDiffLineCatalogue ==
    {L_header, L_path, L_hunk, L_hugehunk, L_add, L_del, L_newmode}

LongDiffInputs ==
    {Join(ls, NL) : ls \in SeqsUpTo(LongDiffLineCatalogue, MaxLongDiffLines)}

DiffLongSpecInit ==
    /\ diff_text \in LongDiffInputs
    /\ DiffFresh
    /\ pc_diff = "start"
    /\ RespIdle
    /\ PipeIdle

SpecDiffLong == DiffLongSpecInit /\ [][DiffNext]_vars


(***************************************************************************)
(* Vocabulary of the diff claims.                                          *)
(***************************************************************************)
DiffDone == pc_diff = "done"

\* N: the number of lines of the input that begin with 'diff --git'
HeaderCount == HeadersIn(diff_lines, Len(diff_lines))

\* the lines of section k: section 0 is the text before the first header,
\* section k >= 1 runs from the k-th header up to the next header
Section(k) ==
    LET I == {i \in 1..Len(diff_lines) : HeadersIn(diff_lines, i) = k}
    IN  IF I = {} THEN <<>>
        ELSE SubSeq(diff_lines,
                    CHOOSE i \in I : \A j \in I : i <= j,
                    CHOOSE i \in I : \A j \in I : i >= j)

\* the section the r-th returned record was accumulated from
SectionOf(r) == Section(change_section[r])

IsAddedLine(l)   == StartsWith(l, <<"+">>) /\ ~StartsWith(l, PLUS3)
IsRemovedLine(l) == StartsWith(l, <<"-">>) /\ ~StartsWith(l, MINUS3)

RECURSIVE StripFirst(_)
\* each line without its first character
StripFirst(ls) ==
    IF ls = <<>> THEN <<>> ELSE <<Tail(Head(ls))>> \o StripFirst(Tail(ls))

\* the header of a section: its lines before the first '@@' line
HeaderPart(ls) ==
    LET I == {i \in 1..Len(ls) : StartsWith(ls[i], AT2)}
    IN  IF I = {} THEN ls
        ELSE SubSeq(ls, 1, (CHOOSE i \in I : \A j \in I : i <= j) - 1)

HasMarkerLine(ls, marker) == \E i \in 1..Len(ls) : StartsWith(ls[i], marker)

HeaderChangeType(ls) ==
    IF HasMarkerLine(HeaderPart(ls), NEW_FILE_MODE) THEN ChangeType.ADDED
    ELSE IF HasMarkerLine(HeaderPart(ls), DELETED_FILE_MODE) THEN ChangeType.DELETED
    ELSE ChangeType.MODIFIED

\* C1: a diff text with N 'diff --git' lines parses to exactly N FileChange
\* records.
C1_OnePerHeader == DiffDone => Len(changes) = HeaderCount

\* C2: the path of every returned FileChange is the path of a '+++ b/<path>'
\* line of the section the record was built from.
C2_PathFromOwnSection ==
    DiffDone =>
        \A r \in 1..Len(changes) :
            \E i \in 1..Len(SectionOf(r)) :
                LET l == SectionOf(r)[i]
                IN  /\ StartsWith(l, PLUS3)
                    /\ PathSearch(l).matched
                    /\ PathSearch(l).group = changes[r].path

\* C3: the change type of every returned FileChange is the one the header
\* marker lines of its own section give; hunk content does not count.
C3_TypeFromHeaderOnly ==
    DiffDone =>
        \A r \in 1..Len(changes) :
            changes[r].change_type = HeaderChangeType(SectionOf(r))

\* C4: a diff text without any 'diff --git' line parses to the empty list.
C4_NoHeaderNoChanges == (DiffDone /\ HeaderCount = 0) => changes = <<>>

\* C5: additions (deletions) of every returned FileChange are exactly the
\* lines of its own section that begin with '+' but not '+++' ('-' but not
\* '---'), in order, without the first character.
C5_AdditionsDeletionsOfOwnSection ==
    DiffDone =>
        \A r \in 1..Len(changes) :
            /\ changes[r].additions =
                   StripFirst(SelectSeq(SectionOf(r), IsAddedLine))
            /\ changes[r].deletions =
                   StripFirst(SelectSeq(SectionOf(r), IsRemovedLine))

\* two sections were flushed: the first with an added line, the second, read
\* after the 'diff --git' line that reset the accumulators, with none
C5_Witness ==
    /\ DiffDone
    /\ Len(changes) = 2
    /\ changes[1].additions = <<<<"a">>>>
    /\ changes[2].additions = <<>>

\* C6: _parse_diff never raises, whatever the text: no conversion fails, no
\* FileChange is refused by __post_init__, and every record returned carries
\* a valid change type and integer line numbers.
C6_ParseDiffTotal ==
    /\ pc_diff # "raised"
    /\ \A r \in 1..Len(changes) :
           /\ changes[r].change_type \in valid_types
           /\ \A k \in 1..Len(changes[r].line_numbers) :
                  changes[r].line_numbers[k] \in Nat

(***************************************************************************)
(* Literals of llm_reviewer.py and constants.py.                           *)
(***************************************************************************)
SEVERITY_   == <<"S","E","V","E","R","I","T","Y",":">>
CATEGORY_   == <<"C","A","T","E","G","O","R","Y",":">>
LINE_       == <<"L","I","N","E",":">>
MESSAGE_    == <<"M","E","S","S","A","G","E",":">>
SUGGESTION_ == <<"S","U","G","G","E","S","T","I","O","N",":">>

\* class Severity(Enum), class Category(Enum): the .value strings
Severity ==
    [CRITICAL |-> <<"c","r","i","t","i","c","a","l">>,
     WARNING  |-> <<"w","a","r","n","i","n","g">>,
     INFO     |-> <<"i","n","f","o">>]
Category ==
    [BUG         |-> <<"b","u","g">>,
     SECURITY    |-> <<"s","e","c","u","r","i","t","y">>,
     STYLE       |-> <<"s","t","y","l","e">>,
     PERFORMANCE |-> <<"p","e","r","f","o","r","m","a","n","c","e">>,
     GENERAL     |-> <<"g","e","n","e","r","a","l">>]

valid_severities == {Severity.CRITICAL, Severity.WARNING, Severity.INFO}
valid_categories ==
    {Category.BUG, Category.SECURITY, Category.STYLE, Category.PERFORMANCE,
     Category.GENERAL}

\* the defaults of current_issue.get(...)
DEFAULT_SEVERITY   == <<"i","n","f","o">>
DEFAULT_CATEGORY   == <<"g","e","n","e","r","a","l">>
DEFAULT_LINE       == 0
DEFAULT_MESSAGE    == <<"N","o"," ","m","e","s","s","a","g","e">>
DEFAULT_SUGGESTION == <<"N","o"," ","s","u","g","g","e","s","t","i","o","n">>

(***************************************************************************)
(* str.strip, str.split(':', 1)[1] and int().                              *)
(***************************************************************************)
Whitespace == {" ", "\t", "\r", "\n"}

RECURSIVE LStrip(_)
LStrip(s) == IF s # <<>> /\ Head(s) \in Whitespace THEN LStrip(Tail(s)) ELSE s

RECURSIVE RStrip(_)
RStrip(s) ==
    IF s # <<>> /\ s[Len(s)] \in Whitespace
    THEN RStrip(SubSeq(s, 1, Len(s) - 1)) ELSE s

\* str.strip()
Strip(s) == RStrip(LStrip(s))

\* line.split(':', 1)[1] for a line that holds a colon
AfterFirstColon(s) == SubSeq(s, Find(s, <<":">>) + 1, Len(s))

\* the text int() accepts: an optional sign, then digits, single underscores
\* allowed between digits
IsIntLiteral(s) ==
    LET body == IF s # <<>> /\ s[1] \in {"+", "-"} THEN Tail(s) ELSE s
    IN  /\ body # <<>>
        /\ \A i \in 1..Len(body) : body[i] \in Digits \cup {"_"}
        /\ body[1] \in Digits
        /\ body[Len(body)] \in Digits
        /\ \A i \in 1..(Len(body) - 1) : ~(body[i] = "_" /\ body[i + 1] = "_")

IsDigit(c) == c \in Digits

\* int(s) for an accepted text
IntValue(s) ==
    LET neg  == s[1] = "-"
        body == IF s[1] \in {"+", "-"} THEN Tail(s) ELSE s
        n    == DigitsVal(SelectSeq(body, IsDigit))
    IN  IF neg THEN 0 - n ELSE n

\* try: int(text) except ValueError: 0
IntOrZero(text) ==
    IF /\ IsIntLiteral(Strip(text))
       /\ ~IntRaisesOnDigits(SelectSeq(Strip(text), IsDigit))
    THEN IntValue(Strip(text)) ELSE 0


(***************************************************************************)
(* Inputs of _parse_review_response: every text of at most MaxRespLines    *)
(* lines drawn from these lines, joined by newlines, and a file path.      *)
(***************************************************************************)
R_sev     == SEVERITY_ \o <<" ","c","r","i","t","i","c","a","l">>
R_sevBad  == SEVERITY_ \o <<" ","C","r","i","t","i","c","a","l">>
R_cat     == CATEGORY_ \o <<" ","b","u","g">>
R_catBad  == CATEGORY_                                   \* CATEGORY:
R_lineNeg == LINE_ \o <<" ","-","5">>
R_lineBad == LINE_ \o <<" ","x">>
R_msg     == MESSAGE_ \o <<" ","a",":","b">>             \* MESSAGE: a:b
R_sug     == <<" ">> \o SUGGESTION_ \o <<"s"," ">>       \* ' SUGGESTION:s '
R_dash    == <<" ">> \o MINUS3 \o <<" ">>                \* ' --- '
R_text    == <<"x">>

RespLineCatalogue ==
    {R_sev, R_sevBad, R_cat, R_catBad, R_lineNeg, R_lineBad, R_msg,
     R_sug, R_dash, R_text}

RespInputs == {Join(ls, NL) : ls \in SeqsUpTo(RespLineCatalogue, MaxRespLines)}

FilePaths == {<<"f">>}

(***************************************************************************)
(* ReviewIssue and its __post_init__.                                      *)
(***************************************************************************)
\* the dataclass without __post_init__
ReviewIssueRaw(severity, category, file, line, message, suggestion) ==
    [severity |-> severity, category |-> category, file |-> file,
     line |-> line, message |-> message, suggestion |-> suggestion]

ReviewIssue(severity, category, file, line, message, suggestion) ==
    [severity   |-> IF severity \notin valid_severities
                    THEN Severity.INFO ELSE severity,
     category   |-> IF category \notin valid_categories
                    THEN Category.GENERAL ELSE category,
     file       |-> file,
     line       |-> line,
     message    |-> message,
     suggestion |-> suggestion]

(***************************************************************************)
(* LLMReviewer._parse_review_response, one step per iteration of its loop. *)
(***************************************************************************)
\* the guard of the last elif, without its test of the accumulator
ClosesIssueAlways(line, cur) == line = MINUS3

\* elif line == '---' and current_issue
ClosesIssue(line, cur) == line = MINUS3 /\ DOMAIN cur # {}

\* which arm of the if/elif chain a stripped line takes
RespBranch(line, cur) ==
    IF StartsWith(line, SEVERITY_) THEN "severity"
    ELSE IF StartsWith(line, CATEGORY_) THEN "category"
    ELSE IF StartsWith(line, LINE_) THEN "line"
    ELSE IF StartsWith(line, MESSAGE_) THEN "message"
    ELSE IF StartsWith(line, SUGGESTION_) THEN "suggestion"
    ELSE IF ClosesIssue(line, cur) THEN "close"
    ELSE "skip"

\* line.split(':', 1)[1].strip()
FieldValue(line) == Strip(AfterFirstColon(line))

\* current_issue after a close, were it left as it is
KeepIssue(cur) == cur

\* current_issue = {} after a close
AfterClose(cur) == EmptyDict

\* the ReviewIssue built from the accumulator
IssueOf(cur, file) ==
    ReviewIssue(DictGet(cur, "severity", DEFAULT_SEVERITY),
                DictGet(cur, "category", DEFAULT_CATEGORY),
                file,
                DictGet(cur, "line", DEFAULT_LINE),
                DictGet(cur, "message", DEFAULT_MESSAGE),
                DictGet(cur, "suggestion", DEFAULT_SUGGESTION))

RespInit ==
    /\ response \in RespInputs
    /\ file_path \in FilePaths
    /\ resp_lines = <<>>
    /\ rpos = 0
    /\ issues = <<>>
    /\ current_issue = EmptyDict
    /\ pc_resp = "start"

\* lines 224-227: the locals, and response.split('\n')
ParseResponseBegin ==
    /\ pc_resp = "start"
    /\ resp_lines' = Split(response, NL)
    /\ rpos' = 1
    /\ pc_resp' = "loop"
    /\ UNCHANGED <<response, file_path, issues, current_issue>>
    /\ UNCHANGED <<diffVars, pipeVars, extVars>>

\* the stripped line of the current iteration
CurLine == Strip(resp_lines[rpos])

RespAt(kind) ==
    /\ pc_resp = "loop" /\ rpos <= Len(resp_lines)
    /\ RespBranch(CurLine, current_issue) = kind

\* an iteration on a SEVERITY:, CATEGORY:, MESSAGE: or SUGGESTION: line
RespTextField(kind) ==
    /\ RespAt(kind)
    /\ current_issue' = DictSet(current_issue, kind, FieldValue(CurLine))
    /\ rpos' = rpos + 1
    /\ UNCHANGED <<response, file_path, resp_lines, issues, pc_resp>>
    /\ UNCHANGED <<diffVars, pipeVars, extVars>>

RespSeverityLine   == RespTextField("severity")
RespCategoryLine   == RespTextField("category")
RespMessageLine    == RespTextField("message")
RespSuggestionLine == RespTextField("suggestion")

\* the exception int(text) raises, NoException when it returns
NoException == "none"
IntException(text) ==
    IF /\ IsIntLiteral(Strip(text))
       /\ ~IntRaisesOnDigits(SelectSeq(Strip(text), IsDigit))
    THEN NoException ELSE "ValueError"

\* a try around int() with no except clause
ExceptNothing == {}

\* lines 235-238: the exceptions the try around int() catches
ExceptAtLine == {"ValueError"}

\* an iteration on a LINE: line
RespLineLine ==
    /\ RespAt("line")
    /\ LET exc == IntException(FieldValue(CurLine))
       IN  IF exc # NoException /\ exc \notin ExceptAtLine
           THEN /\ pc_resp' = "raised"
                /\ UNCHANGED <<rpos, current_issue>>
           ELSE /\ current_issue' =
                       DictSet(current_issue, "line", IntOrZero(FieldValue(CurLine)))
                /\ rpos' = rpos + 1
                /\ UNCHANGED pc_resp
    /\ UNCHANGED <<response, file_path, resp_lines, issues>>
    /\ UNCHANGED <<diffVars, pipeVars, extVars>>

\* an iteration on a '---' line with a non-empty accumulator
RespCloseLine ==
    /\ RespAt("close")
    /\ issues' = Append(issues, IssueOf(current_issue, file_path))
    /\ current_issue' = AfterClose(current_issue)
    /\ rpos' = rpos + 1
    /\ UNCHANGED <<response, file_path, resp_lines, pc_resp>>
    /\ UNCHANGED <<diffVars, pipeVars, extVars>>

\* an iteration on any other line
RespSkipLine ==
    /\ RespAt("skip")
    /\ rpos' = rpos + 1
    /\ UNCHANGED <<response, file_path, resp_lines, issues, current_issue, pc_resp>>
    /\ UNCHANGED <<diffVars, pipeVars, extVars>>

\* line 255: return issues
ParseResponseEnd ==
    /\ pc_resp = "loop" /\ rpos > Len(resp_lines)
    /\ pc_resp' = "done"
    /\ UNCHANGED <<response, file_path, resp_lines, rpos, issues, current_issue>>
    /\ UNCHANGED <<diffVars, pipeVars, extVars>>

RespNext ==
    \/ ParseResponseBegin
    \/ RespSeverityLine
    \/ RespCategoryLine
    \/ RespLineLine
    \/ RespMessageLine
    \/ RespSuggestionLine
    \/ RespCloseLine
    \/ RespSkipLine
    \/ ParseResponseEnd

\* one call of _parse_review_response, nothing else running
RespSpecInit == RespInit /\ DiffIdle /\ PipeIdle

SpecResp == RespSpecInit /\ [][RespNext]_vars


(***************************************************************************)
(* Vocabulary of the response claims.                                      *)
(***************************************************************************)
RespDone == pc_resp = "done"

\* the lines of the response, trimmed
Stripped == [i \in 1..Len(resp_lines) |-> Strip(resp_lines[i])]

FieldPrefixes == {SEVERITY_, CATEGORY_, LINE_, MESSAGE_, SUGGESTION_}

IsFieldLine(l) == \E p \in FieldPrefixes : StartsWith(l, p)
IsDashLine(l)  == l = MINUS3

\* in the trimmed lines sl, line i is a '---' reached with a non-empty
\* accumulator: some field line precedes it with no '---' line in between
Closes(sl, i) ==
    /\ IsDashLine(sl[i])
    /\ \E j \in 1..(i - 1) :
           /\ IsFieldLine(sl[j])
           /\ \A k \in (j + 1)..(i - 1) : ~IsDashLine(sl[k])

ClosePositionsOf(sl) == {i \in 1..Len(sl) : Closes(sl, i)}

ClosePositions == ClosePositionsOf(Stripped)

\* the k-th smallest of the closing positions cp
KthClose(cp, k) ==
    CHOOSE i \in cp : Cardinality({j \in cp : j <= i}) = k

\* the lines of the k-th block: after the previous closing '---' (or from the
\* start of the text) up to the k-th closing '---'
Block(cp, k) == ((IF k = 1 THEN 0 ELSE KthClose(cp, k - 1)) + 1)..(KthClose(cp, k) - 1)

\* the lines of block k that set the field of the given prefix
Setters(sl, cp, k, prefix) == {i \in Block(cp, k) : StartsWith(sl[i], prefix)}

\* the value of a field of block k: the one given by the last line of the
\* block that sets it, or the default
BlockValue(sl, cp, k, prefix, default) ==
    LET S == Setters(sl, cp, k, prefix)
    IN  IF S = {} THEN default
        ELSE FieldValue(sl[CHOOSE i \in S : \A j \in S : j <= i])

BlockLine(sl, cp, k) ==
    LET S == Setters(sl, cp, k, LINE_)
    IN  IF S = {} THEN DEFAULT_LINE
        ELSE IntOrZero(FieldValue(sl[CHOOSE i \in S : \A j \in S : j <= i]))

InOr(v, S, d) == IF v \in S THEN v ELSE d

\* C7: the parser emits exactly one issue for each '---' line reached with a
\* non-empty accumulator, none for a '---' reached with an empty one, and
\* none for fields left open at the end of the text.
C7_OneIssuePerClosedBlock ==
    RespDone => Len(issues) = Cardinality(ClosePositions)

\* a text with a '---' before any field, one closed block, and a field left
\* open after the last '---' was parsed to the end and gave one issue
C7_Witness ==
    /\ RespDone
    /\ Len(issues) = 1
    /\ LET sl == Stripped
       IN  /\ \E i \in 1..Len(sl) : IsDashLine(sl[i]) /\ ~Closes(sl, i)
           /\ \E i \in 1..Len(sl) :
                  /\ IsFieldLine(sl[i])
                  /\ \A k \in (i + 1)..Len(sl) : ~IsDashLine(sl[k])

\* C8: every issue returned has a line number >= 0.
C8_LineNonNegative ==
    \A k \in 1..Len(issues) : issues[k].line \in Nat

\* C9 as stated: every field of the k-th issue is the default when no line of
\* the k-th block set it, and otherwise the value of the last line of that
\* block that set it.
C9_FieldsFromOwnBlock ==
    RespDone =>
        LET sl == Stripped
            cp == ClosePositionsOf(sl)
        IN  /\ Len(issues) = Cardinality(cp)
            /\ \A k \in 1..Len(issues) :
                   /\ issues[k].severity =
                          BlockValue(sl, cp, k, SEVERITY_, DEFAULT_SEVERITY)
                   /\ issues[k].category =
                          BlockValue(sl, cp, k, CATEGORY_, DEFAULT_CATEGORY)
                   /\ issues[k].line = BlockLine(sl, cp, k)
                   /\ issues[k].message =
                          BlockValue(sl, cp, k, MESSAGE_, DEFAULT_MESSAGE)
                   /\ issues[k].suggestion =
                          BlockValue(sl, cp, k, SUGGESTION_, DEFAULT_SUGGESTION)

\* C9 as amended: the same, with the severity and the category of the block
\* replaced by info and general when they are not recognised values.
C9_FieldsFromOwnBlockNormalised ==
    RespDone =>
        LET sl == Stripped
            cp == ClosePositionsOf(sl)
        IN  /\ Len(issues) = Cardinality(cp)
            /\ \A k \in 1..Len(issues) :
                   /\ issues[k].severity =
                          InOr(BlockValue(sl, cp, k, SEVERITY_, DEFAULT_SEVERITY),
                               valid_severities, Severity.INFO)
                   /\ issues[k].category =
                          InOr(BlockValue(sl, cp, k, CATEGORY_, DEFAULT_CATEGORY),
                               valid_categories, Category.GENERAL)
                   /\ issues[k].line = BlockLine(sl, cp, k)
                   /\ issues[k].message =
                          BlockValue(sl, cp, k, MESSAGE_, DEFAULT_MESSAGE)
                   /\ issues[k].suggestion =
                          BlockValue(sl, cp, k, SUGGESTION_, DEFAULT_SUGGESTION)

\* two blocks were closed: the first set only the severity, the second only
\* the message; each issue has its own block's value and the default for the
\* field its block did not set, not the other block's value
C9_Witness ==
    /\ RespDone
    /\ Len(issues) = 2
    /\ LET sl == Stripped
           cp == ClosePositionsOf(sl)
       IN  /\ Cardinality(cp) = 2
           /\ Setters(sl, cp, 1, SEVERITY_) # {}
           /\ Setters(sl, cp, 1, MESSAGE_) = {}
           /\ Setters(sl, cp, 2, SEVERITY_) = {}
           /\ Setters(sl, cp, 2, MESSAGE_) # {}
    /\ issues[1].severity = Severity.CRITICAL
    /\ issues[1].message = DEFAULT_MESSAGE
    /\ issues[2].severity = DEFAULT_SEVERITY
    /\ issues[2].message = <<"a", ":", "b">>

\* C10: every issue has a severity among critical, warning, info and a
\* category among bug, security, style, performance, general, an
\* unrecognised value of its block having become info or general; and its
\* file is the file_path argument.
C10_IssueFieldsValid ==
    /\ \A k \in 1..Len(issues) :
           /\ issues[k].severity \in valid_severities
           /\ issues[k].category \in valid_categories
           /\ issues[k].file = file_path
    /\ RespDone =>
           LET sl == Stripped
               cp == ClosePositionsOf(sl)
           IN  Len(issues) = Cardinality(cp) =>
                   \A k \in 1..Len(issues) :
                       /\ BlockValue(sl, cp, k, SEVERITY_, DEFAULT_SEVERITY)
                              \notin valid_severities
                          => issues[k].severity = Severity.INFO
                       /\ BlockValue(sl, cp, k, CATEGORY_, DEFAULT_CATEGORY)
                              \notin valid_categories
                          => issues[k].category = Category.GENERAL

\* an issue was built from a block whose severity is differently cased and
\* whose category is empty
C10_Witness ==
    /\ RespDone
    /\ Len(issues) = 1
    /\ LET sl == Stripped
           cp == ClosePositionsOf(sl)
       IN  /\ Cardinality(cp) = 1
           /\ BlockValue(sl, cp, 1, SEVERITY_, DEFAULT_SEVERITY)
                  = <<"C","r","i","t","i","c","a","l">>
           /\ BlockValue(sl, cp, 1, CATEGORY_, DEFAULT_CATEGORY) = <<>>
    /\ issues[1].severity = Severity.INFO
    /\ issues[1].category = Category.GENERAL


\* C11: _parse_review_response never raises, whatever the text, and a text
\* with no field line, or with field lines but no '---' line, gives the empty
\* list.
C11_ParseResponseTotal ==
    /\ pc_resp # "raised"
    /\ LET sl == Stripped
       IN  (/\ RespDone
            /\ \/ \A i \in 1..Len(sl) : ~IsFieldLine(sl[i])
               \/ \A i \in 1..Len(sl) : ~IsDashLine(sl[i]))
           => issues = <<>>

\* a text with field lines, among them a LINE: whose value int() refuses, and
\* no '---' was parsed to the end and gave no issue
C11_Witness ==
    /\ RespDone
    /\ issues = <<>>
    /\ DOMAIN current_issue = {"line", "message"}
    /\ \E i \in 1..Len(resp_lines) : resp_lines[i] = R_lineBad


(***************************************************************************)
(* LLMReviewer._generate_summary.  The summary text is modelled line by    *)
(* line; each line is a record of the values its f-string interpolates.    *)
(***************************************************************************)
MaxSummaryIssues == 4

SummaryLine(kind, name, n, m) == [kind |-> kind, name |-> name, n |-> n, m |-> m]

\* len([i for i in issues if i.severity == sev])
SeverityCount(iss, sev) ==
    Cardinality({i \in 1..Len(iss) : iss[i].severity = sev})

\* categories[c] = categories.get(c, 0) + 1 on a dict that keeps insertion
\* order: a sequence of (category, count) items
Bump(categories, c) ==
    IF \E k \in 1..Len(categories) : categories[k].cat = c
    THEN [k \in 1..Len(categories) |->
             IF categories[k].cat = c
             THEN [categories[k] EXCEPT !.count = @ + 1]
             ELSE categories[k]]
    ELSE Append(categories, [cat |-> c, count |-> 1])

RECURSIVE CountCategories(_, _)
\* lines 274-276
CountCategories(iss, categories) ==
    IF iss = <<>> THEN categories
    ELSE CountCategories(Tail(iss), Bump(categories, Head(iss).category))

\* a sort that puts an item before the items of equal count
InsertBeforeTies(sorted, x) ==
    LET k == Cardinality({i \in 1..Len(sorted) : sorted[i].count > x.count})
    IN  SubSeq(sorted, 1, k) \o <<x>> \o SubSeq(sorted, k + 1, Len(sorted))

\* the place of one more item in a list sorted by descending count, after
\* the items of equal count (sorted() is stable, also with reverse=True)
InsertByCount(sorted, x) ==
    LET k == Cardinality({i \in 1..Len(sorted) : sorted[i].count >= x.count})
    IN  SubSeq(sorted, 1, k) \o <<x>> \o SubSeq(sorted, k + 1, Len(sorted))

RECURSIVE SortedByCount(_)
\* sorted(categories.items(), key=lambda x: x[1], reverse=True)
SortedByCount(items) ==
    IF items = <<>> THEN <<>>
    ELSE InsertByCount(SortedByCount(SubSeq(items, 1, Len(items) - 1)),
                       items[Len(items)])

_generate_summary(iss, files_count) ==
    IF iss = <<>>
    THEN <<SummaryLine("no_issues", <<>>, files_count, 0)>>
    ELSE LET categories == CountCategories(iss, <<>>)
             sorted == SortedByCount(categories)
         IN  <<SummaryLine("found", <<>>, Len(iss), files_count),
               SummaryLine("critical", <<>>, SeverityCount(iss, Severity.CRITICAL), 0),
               SummaryLine("warnings", <<>>, SeverityCount(iss, Severity.WARNING), 0),
               SummaryLine("info", <<>>, SeverityCount(iss, Severity.INFO), 0)>>
             \o (IF categories # <<>>
                 THEN <<SummaryLine("by_category", <<>>, 0, 0)>>
                      \o [k \in 1..Len(sorted) |->
                             SummaryLine("category", sorted[k].cat,
                                         sorted[k].count, 0)]
                 ELSE <<>>)

\* a ReviewIssue as the response parser returns it for a file
IssueFor(path, severity, category) ==
    ReviewIssue(severity, category, path, DEFAULT_LINE, DEFAULT_MESSAGE,
                DEFAULT_SUGGESTION)

\* inputs of _generate_summary: every list of at most MaxSummaryIssues issues
\* of these kinds
SummaryIssueKinds ==
    {IssueFor(<<"f">>, Severity.CRITICAL, Category.BUG),
     IssueFor(<<"f">>, Severity.WARNING, Category.STYLE),
     IssueFor(<<"f">>, Severity.INFO, Category.GENERAL),
     IssueFor(<<"g">>, Severity.INFO, Category.BUG)}

SumInit ==
    /\ sum_issues \in SeqsUpTo(SummaryIssueKinds, MaxSummaryIssues)
    /\ sum_files \in {1, 2}
    /\ sum_out = Unset
    /\ pc_sum = "start"

GenerateSummary ==
    /\ pc_sum = "start"
    /\ sum_out' = _generate_summary(sum_issues, sum_files)
    /\ pc_sum' = "done"
    /\ UNCHANGED <<sum_issues, sum_files>>
    /\ UNCHANGED <<diffVars, respVars, extVars, gitVars, reviewVars, fmtVars, mainVars>>

SumNext == GenerateSummary

SumSpecInit ==
    /\ SumInit
    /\ DiffIdle /\ RespIdle /\ ExtIdle
    /\ GitIdle /\ ReviewIdle /\ FmtIdle /\ MainIdle

SpecSummary == SumSpecInit /\ [][SumNext]_vars

(***************************************************************************)
(* Vocabulary of the summary claim.                                        *)
(***************************************************************************)
IsCategoryLine(l) == l.kind = "category"

\* the index of the first issue of category c
FirstOfCategory(iss, c) ==
    CHOOSE i \in 1..Len(iss) :
        /\ iss[i].category = c
        /\ \A j \in 1..(i - 1) : iss[j].category # c

RECURSIVE SumOfCounts(_)
SumOfCounts(ls) == IF ls = <<>> THEN 0 ELSE Head(ls).n + SumOfCounts(Tail(ls))

\* C17: when there is an issue, the by-category lines list each category of
\* the issues once with its count, by descending count, ties in the order the
\* categories first occur in the issue list, and the counts sum to the number
\* of issues.
C17_ByCategorySorted ==
    (pc_sum = "done" /\ sum_issues # <<>>) =>
        LET bc   == SelectSeq(sum_out, IsCategoryLine)
            cats == {sum_issues[i].category : i \in 1..Len(sum_issues)}
        IN  /\ Len(bc) = Cardinality(cats)
            /\ \A c \in cats :
                   \E k \in 1..Len(bc) :
                       /\ bc[k].name = c
                       /\ bc[k].n = Cardinality({i \in 1..Len(sum_issues) :
                                                    sum_issues[i].category = c})
            /\ \A k \in 1..(Len(bc) - 1) :
                   \/ bc[k].n > bc[k + 1].n
                   \/ /\ bc[k].n = bc[k + 1].n
                      /\ FirstOfCategory(sum_issues, bc[k].name)
                             < FirstOfCategory(sum_issues, bc[k + 1].name)
            /\ SumOfCounts(bc) = Len(sum_issues)

\* a summary of four issues in three categories: bug twice, and style and
\* general once each with style first
C17_Witness ==
    /\ pc_sum = "done"
    /\ Len(sum_issues) = 4
    /\ sum_issues[1].category = Category.STYLE
    /\ sum_issues[2].category = Category.GENERAL
    /\ LET bc == SelectSeq(sum_out, IsCategoryLine)
       IN  /\ Len(bc) = 3
           /\ bc[1].name = Category.BUG /\ bc[1].n = 2
           /\ bc[2].name = Category.STYLE
           /\ bc[3].name = Category.GENERAL


(***************************************************************************)
(* Exceptions: the classes raised in the pipeline and the except clauses   *)
(* that catch them.                                                        *)
(***************************************************************************)
\* exceptions.py: CodeReviewError and its subclasses
CodeReviewErrors ==
    {"CodeReviewError", "GitAnalysisError", "LLMReviewError",
     "ConfigurationError", "InvalidAPIKeyError"}

\* the subclasses of Exception that occur; KeyboardInterrupt is a
\* BaseException and not one of them
Exceptions ==
    CodeReviewErrors
        \cup {"Exception", "APIError", "ValueError", "OSError",
              "CalledProcessError", "TimeoutExpired"}

\* an except clause that catches every BaseException
CatchesBaseException(e) == e # NoExc

\* except Exception
CatchesException(e) == e \in Exceptions

(***************************************************************************)
(* LLMReviewer.review, one step per iteration of its loop.  A context is   *)
(* modelled by the path and change type of its file_change; the LLM call   *)
(* is the environment's choice of a response or of an exception.           *)
(***************************************************************************)
MaxContexts == 3

ReviewResult(iss, summary, files_reviewed, total_issues) ==
    [issues |-> iss, summary |-> summary, files_reviewed |-> files_reviewed,
     total_issues |-> total_issues]

CodeContext(path, change_type) == [path |-> path, change_type |-> change_type]

ContextKinds ==
    {CodeContext(<<"a">>, ChangeType.MODIFIED),
     CodeContext(<<"b">>, ChangeType.DELETED),
     CodeContext(<<"c">>, ChangeType.ADDED)}

\* what _parse_review_response can return for the response to a file
ParsedIssues(path) ==
    {<<>>,
     <<IssueFor(path, Severity.CRITICAL, Category.BUG)>>,
     <<IssueFor(path, Severity.INFO, Category.STYLE),
       IssueFor(path, Severity.WARNING, Category.BUG)>>}

\* what the LLM call, or the handling of its response, can raise
LLMRaises == {"APIError", "KeyboardInterrupt"}

\* a loop that reviews deleted files too
SkipsNothing(context) == FALSE

\* line 111: if context.file_change.change_type == ChangeType.DELETED.value
SkipsContext(context) == context.change_type = ChangeType.DELETED

\* lines 151-190 of _review_file_change: the exception that leaves it when
\* the LLM call or the parsing raises e
ReviewFileChangeRaises(e) ==
    IF CatchesException(e) THEN "LLMReviewError" ELSE e

\* a per-file handler that catches nothing
PerFileCatchesNothing(e) == FALSE

\* a per-file handler that catches every BaseException
PerFileCatchesAll(e) == CatchesBaseException(e)

\* line 120: except Exception as e
PerFileCatches(e) == CatchesException(e)

\* an accumulator that puts the new issues first
ExtendAtFront(lst, more) == more \o lst

\* line 119: all_issues.extend(issues)
Extend(lst, more) == lst \o more

\* what happened to a context: skipped, ok, failed (caught) or raised, the
\* issues it gave and the exception of the LLM call
Outcome(kind, iss, exc) == [kind |-> kind, issues |-> iss, exc |-> exc]

ReviewFresh ==
    /\ rv_i = 0 /\ all_issues = <<>> /\ llm_calls = 0 /\ file_outcome = <<>>
    /\ rv_result = Unset /\ rv_exc = NoExc

ReviewInit ==
    /\ contexts \in SeqsUpTo(ContextKinds, MaxContexts)
    /\ rv_pc = "start"
    /\ ReviewFresh

restOfReview == <<diffVars, respVars, extVars, gitVars, sumVars, fmtVars, mainVars>>

\* lines 98-108
ReviewBegin ==
    /\ rv_pc = "start"
    /\ IF contexts = <<>>
       THEN /\ rv_result' = ReviewResult(<<>>,
                                <<SummaryLine("no_files", <<>>, 0, 0)>>, 0, 0)
            /\ rv_pc' = "returned"
            /\ UNCHANGED rv_i
       ELSE /\ rv_i' = 1
            /\ rv_pc' = "loop"
            /\ UNCHANGED rv_result
    /\ UNCHANGED <<contexts, all_issues, llm_calls, file_outcome, rv_exc>>
    /\ UNCHANGED restOfReview

\* lines 111-113: a deleted file is skipped
ReviewSkipFile ==
    /\ rv_pc = "loop" /\ rv_i <= Len(contexts)
    /\ SkipsContext(contexts[rv_i])
    /\ file_outcome' = Append(file_outcome, Outcome("skipped", <<>>, NoExc))
    /\ rv_i' = rv_i + 1
    /\ UNCHANGED <<contexts, rv_pc, all_issues, llm_calls, rv_result, rv_exc>>
    /\ UNCHANGED restOfReview

\* lines 116-119: the LLM answers and the response is parsed
ReviewFileOk ==
    /\ rv_pc = "loop" /\ rv_i <= Len(contexts)
    /\ ~SkipsContext(contexts[rv_i])
    /\ \E iss \in ParsedIssues(contexts[rv_i].path) :
           /\ all_issues' = Extend(all_issues, iss)
           /\ file_outcome' = Append(file_outcome, Outcome("ok", iss, NoExc))
    /\ llm_calls' = llm_calls + 1
    /\ rv_i' = rv_i + 1
    /\ UNCHANGED <<contexts, rv_pc, rv_result, rv_exc>>
    /\ UNCHANGED restOfReview

\* lines 116-122: the LLM call raises
ReviewFileRaises ==
    /\ rv_pc = "loop" /\ rv_i <= Len(contexts)
    /\ ~SkipsContext(contexts[rv_i])
    /\ llm_calls' = llm_calls + 1
    /\ \E e \in LLMRaises :
           LET x == ReviewFileChangeRaises(e)
           IN  IF PerFileCatches(x)
               THEN /\ file_outcome' = Append(file_outcome, Outcome("failed", <<>>, e))
                    /\ rv_i' = rv_i + 1
                    /\ UNCHANGED <<rv_pc, rv_exc>>
               ELSE /\ file_outcome' = Append(file_outcome, Outcome("raised", <<>>, e))
                    /\ rv_pc' = "raised"
                    /\ rv_exc' = x
                    /\ UNCHANGED rv_i
    /\ UNCHANGED <<contexts, all_issues, rv_result>>
    /\ UNCHANGED restOfReview

\* lines 124-132
ReviewReturn ==
    /\ rv_pc = "loop" /\ rv_i > Len(contexts)
    /\ rv_result' = ReviewResult(all_issues,
                                 _generate_summary(all_issues, Len(contexts)),
                                 Len(contexts), Len(all_issues))
    /\ rv_pc' = "returned"
    /\ UNCHANGED <<contexts, rv_i, all_issues, llm_calls, file_outcome, rv_exc>>
    /\ UNCHANGED restOfReview

ReviewNext ==
    \/ ReviewBegin
    \/ ReviewSkipFile
    \/ ReviewFileOk
    \/ ReviewFileRaises
    \/ ReviewReturn

ReviewSpecInit ==
    /\ ReviewInit
    /\ DiffIdle /\ RespIdle /\ ExtIdle
    /\ GitIdle /\ SumIdle /\ FmtIdle /\ MainIdle

SpecReview == ReviewSpecInit /\ [][ReviewNext]_vars

(***************************************************************************)
(* Vocabulary of the review claims.                                        *)
(***************************************************************************)
ReviewReturned == rv_pc = "returned"

RECURSIVE IssuesOfOutcomes(_)
\* the issues of the files whose review succeeded, in file order
IssuesOfOutcomes(outs) ==
    IF outs = <<>> THEN <<>>
    ELSE (IF Head(outs).kind = "ok" THEN Head(outs).issues ELSE <<>>)
             \o IssuesOfOutcomes(Tail(outs))

NonDeleted == {i \in 1..Len(contexts) : contexts[i].change_type # ChangeType.DELETED}

\* C12: a failure of the LLM call for one file never leaves review; every
\* later non-deleted context is still given to the LLM, and the result holds
\* exactly the issues of the files whose review succeeded.
C12_FailureIsLocal ==
    /\ rv_exc \notin Exceptions
    /\ ReviewReturned =>
           /\ Len(file_outcome) = Len(contexts)
           /\ \A i \in NonDeleted : file_outcome[i].kind \in {"ok", "failed"}
           /\ rv_result.issues = IssuesOfOutcomes(file_outcome)

\* the review of the first file failed, the second was reviewed and its
\* issues are the result
C12_Witness ==
    /\ ReviewReturned
    /\ Len(file_outcome) = 2
    /\ file_outcome[1].kind = "failed"
    /\ file_outcome[2].kind = "ok"
    /\ Len(rv_result.issues) = 2

\* C13: a Deleted context causes no LLM call and contributes no issue, and is
\* counted: files_reviewed is the number of contexts and the number of LLM
\* calls is the number of non-deleted contexts.
C13_DeletedSkippedButCounted ==
    /\ llm_calls <= Cardinality(NonDeleted)
    /\ \A i \in 1..Len(file_outcome) :
           contexts[i].change_type = ChangeType.DELETED
               => /\ file_outcome[i].kind = "skipped"
                  /\ file_outcome[i].issues = <<>>
    /\ ReviewReturned =>
           /\ rv_result.files_reviewed = Len(contexts)
           /\ llm_calls = Cardinality(NonDeleted)
           /\ \A k \in 1..Len(rv_result.issues) :
                  \E i \in NonDeleted : rv_result.issues[k].file = contexts[i].path

\* a review of a deleted file and another file returned after one LLM call
C13_Witness ==
    /\ ReviewReturned
    /\ Len(contexts) = 2
    /\ contexts[1].change_type = ChangeType.DELETED
    /\ contexts[2].change_type = ChangeType.ADDED
    /\ llm_calls = 1
    /\ rv_result.files_reviewed = 2
    /\ rv_result.issues # <<>>


\* the contexts handled so far that were given to the LLM
Called == {i \in 1..Len(file_outcome) : file_outcome[i].kind # "skipped"}

IsPrefix(s1, s2) == Len(s1) <= Len(s2) /\ SubSeq(s2, 1, Len(s1)) = s1

\* the outcomes recorded are those of the first contexts, in input order,
\* and the issues collected are theirs, file by file
InOrderSoFar ==
    /\ Len(file_outcome) <= Len(contexts)
    /\ rv_pc = "loop" => Len(file_outcome) = rv_i - 1
    /\ llm_calls = Cardinality(Called)
    /\ all_issues = IssuesOfOutcomes(file_outcome)
    /\ \A i \in 1..Len(file_outcome) :
           \A k \in 1..Len(file_outcome[i].issues) :
               file_outcome[i].issues[k].file = contexts[i].path
    /\ (ReviewReturned /\ contexts # <<>>) => rv_result.issues = all_issues

\* a step handles at most one context, the next one: its LLM call, if any,
\* is made and answered within the step, and its issues go after those
\* already collected
OneContextPerStep ==
    /\ Len(file_outcome') \in {Len(file_outcome), Len(file_outcome) + 1}
    /\ IsPrefix(file_outcome, file_outcome')
    /\ llm_calls' - llm_calls \in {0, 1}
    /\ llm_calls' # llm_calls => Len(file_outcome') = Len(file_outcome) + 1
    /\ IsPrefix(all_issues, all_issues')
    /\ contexts' = contexts

\* C24: contexts are reviewed one at a time in input order, each LLM call
\* completing before the next starts, and the issues of the result are in
\* file-processing order, then in emission order within a file.
C24_ReviewedInOrder == []InOrderSoFar /\ [][OneContextPerStep]_vars

\* a review of three contexts returned the issues of the first before
\* those of the third
C24_Witness ==
    /\ ReviewReturned
    /\ Len(contexts) = 3
    /\ contexts[1].path # contexts[3].path
    /\ file_outcome[1].kind = "ok"
    /\ file_outcome[3].kind = "ok"
    /\ Len(rv_result.issues) >= 3
    /\ rv_result.issues[1].file = contexts[1].path
    /\ rv_result.issues[Len(rv_result.issues)].file = contexts[3].path


(***************************************************************************)
(* OutputFormatter.  A text output is modelled line by line; each line is  *)
(* a record of its kind and of the values its f-string interpolates.       *)
(***************************************************************************)
MaxFormatIssues == 3

Line(kind, val) == [kind |-> kind, val |-> val]

LowerChars == <<"a","b","c","d","e","f","g","h","i","j","k","l","m",
                "n","o","p","q","r","s","t","u","v","w","x","y","z">>
UpperChars == <<"A","B","C","D","E","F","G","H","I","J","K","L","M",
                "N","O","P","Q","R","S","T","U","V","W","X","Y","Z">>

\* str.upper() on ASCII text
Upper(s) ==
    [i \in 1..Len(s) |->
        IF \E k \in 1..26 : LowerChars[k] = s[i]
        THEN UpperChars[CHOOSE k \in 1..26 : LowerChars[k] = s[i]]
        ELSE s[i]]

\* a grouping that puts each issue at the front of its file's list
AddToGroupFront(issues_by_file, issue) ==
    IF \E k \in 1..Len(issues_by_file) : issues_by_file[k].file = issue.file
    THEN [k \in 1..Len(issues_by_file) |->
             IF issues_by_file[k].file = issue.file
             THEN [issues_by_file[k] EXCEPT !.issues = <<issue>> \o @]
             ELSE issues_by_file[k]]
    ELSE Append(issues_by_file, [file |-> issue.file, issues |-> <<issue>>])

\* lines 44-46 and 93-95: one issue added to issues_by_file, a dict that
\* keeps insertion order: a sequence of (file, issues) items
AddToGroup(issues_by_file, issue) ==
    IF \E k \in 1..Len(issues_by_file) : issues_by_file[k].file = issue.file
    THEN [k \in 1..Len(issues_by_file) |->
             IF issues_by_file[k].file = issue.file
             THEN [issues_by_file[k] EXCEPT !.issues = Append(@, issue)]
             ELSE issues_by_file[k]]
    ELSE Append(issues_by_file, [file |-> issue.file, issues |-> <<issue>>])

RECURSIVE GroupByFile(_, _)
\* lines 42-46 and 91-95
GroupByFile(iss, issues_by_file) ==
    IF iss = <<>> THEN issues_by_file
    ELSE GroupByFile(Tail(iss), AddToGroup(issues_by_file, Head(iss)))

RECURSIVE Flatten(_)
Flatten(ss) == IF ss = <<>> THEN <<>> ELSE Head(ss) \o Flatten(Tail(ss))

\* lines 55-60: the severity icon
Icon(severity) ==
    IF severity = Severity.CRITICAL THEN "red"
    ELSE IF severity = Severity.WARNING THEN "yellow"
    ELSE "blue"

\* lines 53-65
TerminalIssue(issue) ==
    <<Line("issue_head", [icon |-> Icon(issue.severity),
                          severity |-> Upper(issue.severity),
                          category |-> issue.category, line |-> issue.line]),
      Line("issue_message", issue.message),
      Line("issue_suggestion", issue.suggestion),
      Line("blank", <<>>)>>

\* lines 49-68
TerminalGroup(group) ==
    <<Line("file", group.file), Line("blank", <<>>)>>
        \o Flatten([k \in 1..Len(group.issues) |-> TerminalIssue(group.issues[k])])
        \o <<Line("rule", "-"), Line("blank", <<>>)>>

_format_terminal(result) ==
    LET groups == GroupByFile(result.issues, <<>>)
    IN  <<Line("rule", "="), Line("title", <<>>), Line("rule", "="),
          Line("blank", <<>>), Line("summary", result.summary),
          Line("blank", <<>>)>>
        \o (IF result.issues # <<>>
            THEN <<Line("rule", "-"), Line("blank", <<>>)>>
                 \o Flatten([k \in 1..Len(groups) |-> TerminalGroup(groups[k])])
            ELSE <<>>)

\* lines 103-107: severity_badge
Badge(severity) ==
    IF severity = Severity.CRITICAL THEN "red CRITICAL"
    ELSE IF severity = Severity.WARNING THEN "yellow WARNING"
    ELSE IF severity = Severity.INFO THEN "blue INFO"
    ELSE "as given"

\* lines 102-114
MarkdownIssue(issue) ==
    <<Line("issue_head", [icon |-> Badge(issue.severity),
                          severity |-> issue.severity,
                          category |-> issue.category, line |-> issue.line]),
      Line("blank", <<>>),
      Line("issue_message", issue.message),
      Line("blank", <<>>),
      Line("issue_suggestion", issue.suggestion),
      Line("blank", <<>>)>>

\* lines 98-114
MarkdownGroup(group) ==
    <<Line("file", group.file), Line("blank", <<>>)>>
        \o Flatten([k \in 1..Len(group.issues) |-> MarkdownIssue(group.issues[k])])

_format_markdown(result) ==
    LET groups == GroupByFile(result.issues, <<>>)
    IN  <<Line("title", <<>>), Line("blank", <<>>),
          Line("summary_heading", <<>>), Line("blank", <<>>),
          Line("summary", result.summary), Line("blank", <<>>)>>
        \o (IF result.issues # <<>>
            THEN <<Line("issues_heading", <<>>), Line("blank", <<>>)>>
                 \o Flatten([k \in 1..Len(groups) |-> MarkdownGroup(groups[k])])
            ELSE <<>>)

\* a rendering that leaves the first issue out of the array
FormatJsonWithoutFirst(result) ==
    [summary |-> result.summary,
     files_reviewed |-> result.files_reviewed,
     total_issues |-> result.total_issues,
     issues |-> IF result.issues = <<>> THEN <<>> ELSE Tail(result.issues)]

\* lines 118-136: the object given to json.dumps
_format_json(result) ==
    [summary |-> result.summary,
     files_reviewed |-> result.files_reviewed,
     total_issues |-> result.total_issues,
     issues |-> [k \in 1..Len(result.issues) |->
                    [severity |-> result.issues[k].severity,
                     category |-> result.issues[k].category,
                     file |-> result.issues[k].file,
                     line |-> result.issues[k].line,
                     message |-> result.issues[k].message,
                     suggestion |-> result.issues[k].suggestion]]]

\* OUTPUT_FORMATS of constants.py, the strings format() recognises
OUTPUT_FORMATS == {"terminal", "markdown", "json"}

\* an error message that does not name the format
UnknownFormatAnonymous(format_type) ==
    Raised("ValueError", <<"Unknown format type">>)

\* line 21: raise ValueError(f"Unknown format type: {format_type}")
UnknownFormat(format_type) ==
    Raised("ValueError", <<"Unknown format type: ", format_type>>)

\* OutputFormatter.format: the output returned and the exception raised
Format(result, format_type) ==
    IF format_type = "terminal"
    THEN [out |-> Output("terminal", _format_terminal(result)), exc |-> NoRaise]
    ELSE IF format_type = "markdown"
    THEN [out |-> Output("markdown", _format_markdown(result)), exc |-> NoRaise]
    ELSE IF format_type = "json"
    THEN [out |-> Output("json", _format_json(result)), exc |-> NoRaise]
    ELSE [out |-> NoOutput, exc |-> UnknownFormat(format_type)]

\* inputs of format: the result of a review with at most MaxFormatIssues
\* issues of these kinds, and a format string
FormatIssueKinds ==
    {ReviewIssue(Severity.CRITICAL, Category.BUG, <<"f">>, 1,
                 DEFAULT_MESSAGE, DEFAULT_SUGGESTION),
     ReviewIssue(Severity.WARNING, Category.STYLE, <<"g">>, 2,
                 DEFAULT_MESSAGE, DEFAULT_SUGGESTION),
     ReviewIssue(Severity.INFO, Category.BUG, <<"f">>, 3,
                 DEFAULT_MESSAGE, DEFAULT_SUGGESTION),
     ReviewIssue(Severity.INFO, Category.GENERAL, <<"h">>, 0,
                 DEFAULT_MESSAGE, DEFAULT_SUGGESTION)}

FormatStrings == {"terminal", "markdown", "json", "yaml", "JSON", ""}

ResultOf(iss, files_count) ==
    ReviewResult(iss, _generate_summary(iss, files_count), files_count, Len(iss))

FmtInit ==
    /\ \E iss \in SeqsUpTo(FormatIssueKinds, MaxFormatIssues) :
           f_result = ResultOf(iss, 3)
    /\ f_type \in FormatStrings
    /\ f_out = NoOutput
    /\ f_exc = NoRaise
    /\ pc_fmt = "start"

restOfFmt == <<diffVars, respVars, extVars, gitVars, reviewVars, sumVars, mainVars>>

FormatCall(kinds) ==
    /\ pc_fmt = "start"
    /\ f_type \in kinds
    /\ f_out' = Format(f_result, f_type).out
    /\ f_exc' = Format(f_result, f_type).exc
    /\ pc_fmt' = IF Format(f_result, f_type).exc.type = NoExc
                 THEN "returned" ELSE "raised"
    /\ UNCHANGED <<f_result, f_type>>
    /\ UNCHANGED restOfFmt

FormatTerminal == FormatCall({"terminal"})
FormatMarkdown == FormatCall({"markdown"})
FormatJson     == FormatCall({"json"})
FormatUnknown  == FormatCall(FormatStrings \ OUTPUT_FORMATS)

FmtNext ==
    \/ FormatTerminal
    \/ FormatMarkdown
    \/ FormatJson
    \/ FormatUnknown

FmtSpecInit ==
    /\ FmtInit
    /\ DiffIdle /\ RespIdle /\ ExtIdle
    /\ GitIdle /\ ReviewIdle /\ SumIdle /\ MainIdle

SpecFormat == FmtSpecInit /\ [][FmtNext]_vars


(***************************************************************************)
(* Vocabulary of the formatter claims.                                     *)
(***************************************************************************)
\* the k-th smallest element of a set of integers
KthOf(S, k) == CHOOSE i \in S : Cardinality({j \in S : j <= i}) = k

IndicesOf(out, kind) == {i \in 1..Len(out) : out[i].kind = kind}

\* the rendered issues in output order: for each issue heading, the file
\* heading above it and the fields of the lines of its block
RenderedIssues(out) ==
    LET H == IndicesOf(out, "issue_head")
        Above(i, kind) ==
            LET J == {j \in IndicesOf(out, kind) : j < i}
            IN  out[CHOOSE j \in J : \A k \in J : k <= j].val
        Below(i, kind) ==
            LET J == {j \in IndicesOf(out, kind) : j > i}
            IN  out[CHOOSE j \in J : \A k \in J : j <= k].val
    IN  [k \in 1..Cardinality(H) |->
            LET i == KthOf(H, k)
            IN  [file |-> Above(i, "file"),
                 category |-> out[i].val.category,
                 line |-> out[i].val.line,
                 message |-> Below(i, "issue_message"),
                 suggestion |-> Below(i, "issue_suggestion")]]

\* the file headings in output order
RenderedFiles(out) ==
    LET F == IndicesOf(out, "file")
    IN  [k \in 1..Cardinality(F) |-> out[KthOf(F, k)].val]

\* the files of the issues in the order of their first occurrence
FilesInOrder(iss) ==
    LET F == {i \in 1..Len(iss) : \A j \in 1..(i - 1) : iss[j].file # iss[i].file}
    IN  [k \in 1..Cardinality(F) |-> iss[KthOf(F, k)].file]

\* the issues grouped by file: the groups in first-occurrence order, the
\* issues of a group in the order of the issue list
GroupedIssues(iss) ==
    LET files == FilesInOrder(iss)
    IN  Flatten([k \in 1..Len(files) |->
                    SelectSeq(iss, LAMBDA x : x.file = files[k])])

\* C18: the terminal and markdown outputs have one file heading per file of
\* the issues, in first-occurrence order, and under the headings every issue
\* once, the issues of a file in the order of the issue list.
C18_GroupedByFile ==
    (pc_fmt = "returned" /\ f_type \in {"terminal", "markdown"}) =>
        LET r == RenderedIssues(f_out.body)
            e == GroupedIssues(f_result.issues)
        IN  /\ RenderedFiles(f_out.body) = FilesInOrder(f_result.issues)
            /\ Len(r) = Len(f_result.issues)
            /\ Len(r) = Len(e)
            /\ \A k \in 1..Len(r) :
                   /\ r[k].file = e[k].file
                   /\ r[k].category = e[k].category
                   /\ r[k].line = e[k].line
                   /\ r[k].message = e[k].message
                   /\ r[k].suggestion = e[k].suggestion

\* a terminal output of three issues of the files f, g, f: the headings are
\* f, g and the issues come out in the order first, third, second
C18_Witness ==
    /\ pc_fmt = "returned"
    /\ f_type = "terminal"
    /\ Len(f_result.issues) = 3
    /\ f_result.issues[1].line = 1
    /\ f_result.issues[2].line = 2
    /\ f_result.issues[3].line = 3
    /\ RenderedFiles(f_out.body) = << <<"f">>, <<"g">> >>
    /\ LET r == RenderedIssues(f_out.body)
       IN  r[1].line = 1 /\ r[2].line = 3 /\ r[3].line = 2

\* C19: format with a string other than terminal, markdown and json raises
\* an error whose message holds the string, and returns no output.
C19_UnknownFormatRaises ==
    (pc_fmt \in {"returned", "raised"}
         /\ f_type \notin {"terminal", "markdown", "json"}) =>
        /\ pc_fmt = "raised"
        /\ f_exc.type # NoExc
        /\ \E k \in 1..Len(f_exc.msg) : f_exc.msg[k] = f_type
        /\ f_out.kind = "none"

\* format was called with yaml and raised
C19_Witness ==
    /\ pc_fmt = "raised"
    /\ f_type = "yaml"
    /\ f_exc.type = "ValueError"
    /\ f_exc.msg[2] = "yaml"


(***************************************************************************)
(* GitAnalyzer.get_changes.  subprocess.run is the environment's choice:   *)
(* it returns the output, raises CalledProcessError with a stderr payload, *)
(* raises TimeoutExpired, or is interrupted by the user.                   *)
(***************************************************************************)
GIT      == <<"g","i","t">>
DIFF     == <<"d","i","f","f">>
SHOW     == <<"s","h","o","w">>
FORMAT_  == <<"-","-","f","o","r","m","a","t","=">>
PATCH    == <<"-","-","p","a","t","c","h">>
TILDE_1  == <<"~","1">>

\* DEFAULT_TARGET of constants.py
DEFAULT_TARGET == <<"H","E","A","D">>

\* lines 83-87: diff_command
DiffCommand(target, base) ==
    IF Truthy(base) THEN <<GIT, DIFF, base.s, target>>
    ELSE <<GIT, DIFF, target \o TILDE_1, target>>

\* line 110
ShowCommand(target) == <<GIT, SHOW, target, FORMAT_, PATCH>>

Targets == {DEFAULT_TARGET, <<"f">>}
Bases == {None, Some(<<>>), Some(<<"m","a","i","n">>)}

\* the stderr payloads of a failing git diff and of a failing git show
DiffStderrs == {"E1", "E3"}
ShowStderrs == {"E2", "E4"}

\* what _parse_diff returns for the output of a command: records of path and
\* change type; the call can also raise ValueError
ParsedChanges ==
    {<<>>,
     <<CodeContext(<<"a">>, ChangeType.MODIFIED)>>,
     <<CodeContext(<<"a">>, ChangeType.MODIFIED),
       CodeContext(<<"b">>, ChangeType.DELETED),
       CodeContext(<<"c">>, ChangeType.ADDED)>>}

Failure(cmd, kind, stderr) == [cmd |-> cmd, kind |-> kind, stderr |-> stderr]

GitInit ==
    /\ g_pc = "start"
    /\ g_target \in Targets
    /\ g_base \in Bases
    /\ g_runs = <<>>
    /\ g_failed = <<>>
    /\ g_changes = Unset
    /\ g_exc = NoRaise

restOfGit == <<diffVars, respVars, extVars, reviewVars, sumVars, fmtVars, mainVars>>

\* the command of the current position
GitCommand ==
    IF g_pc = "start" THEN DiffCommand(g_target, g_base)
    ELSE ShowCommand(g_target)

GitSource == IF g_pc = "start" THEN "diff" ELSE "show"

\* lines 90-100 and 109-119: the command succeeds and its output is parsed
GitCommandOk ==
    /\ g_pc \in {"start", "fallback"}
    /\ g_runs' = Append(g_runs, GitCommand)
    /\ \E parsed \in ParsedChanges :
           /\ g_changes' = [src |-> GitSource, changes |-> parsed]
           /\ g_pc' = "returned"
           /\ UNCHANGED g_exc
    /\ UNCHANGED <<g_target, g_base, g_failed>>
    /\ UNCHANGED restOfGit

\* _parse_diff raises on the output of the command; no handler of
\* get_changes matches ValueError
GitParseRaises ==
    /\ g_pc \in {"start", "fallback"}
    /\ g_runs' = Append(g_runs, GitCommand)
    /\ g_exc' = Raised("ValueError", <<"Exceeds the limit">>)
    /\ g_pc' = "raised"
    /\ UNCHANGED <<g_target, g_base, g_failed, g_changes>>
    /\ UNCHANGED restOfGit

\* lines 102-103: the diff command times out
GitDiffTimeout ==
    /\ g_pc = "start"
    /\ g_runs' = Append(g_runs, GitCommand)
    /\ g_failed' = Append(g_failed, Failure("diff", "timeout", "T1"))
    /\ g_exc' = Raised("GitAnalysisError",
                       <<"Git command timed out after 30 seconds">>)
    /\ g_pc' = "raised"
    /\ UNCHANGED <<g_target, g_base, g_changes>>
    /\ UNCHANGED restOfGit

\* lines 105-108: the diff command exits with an error
GitDiffFails ==
    /\ g_pc = "start"
    /\ g_runs' = Append(g_runs, GitCommand)
    /\ \E stderr \in DiffStderrs :
           g_failed' = Append(g_failed, Failure("diff", "exit", stderr))
    /\ g_pc' = "fallback"
    /\ UNCHANGED <<g_target, g_base, g_changes, g_exc>>
    /\ UNCHANGED restOfGit

\* lines 121-125: git show exits with an error too
GitShowFails ==
    /\ g_pc = "fallback"
    /\ g_runs' = Append(g_runs, GitCommand)
    /\ \E stderr \in ShowStderrs :
           /\ g_failed' = Append(g_failed, Failure("show", "exit", stderr))
           /\ g_exc' = Raised("GitAnalysisError",
                              <<"Failed to get git diff: ", g_failed[1].stderr,
                                "\nAlso failed with git show: ", stderr>>)
    /\ g_pc' = "raised"
    /\ UNCHANGED <<g_target, g_base, g_changes>>
    /\ UNCHANGED restOfGit

\* git show times out: the inner try has no handler for TimeoutExpired, and
\* the outer handlers do not apply inside a handler
GitShowTimeout ==
    /\ g_pc = "fallback"
    /\ g_runs' = Append(g_runs, GitCommand)
    /\ g_failed' = Append(g_failed, Failure("show", "timeout", "T2"))
    /\ g_exc' = Raised("TimeoutExpired", <<"Command timed out after 30 seconds">>)
    /\ g_pc' = "raised"
    /\ UNCHANGED <<g_target, g_base, g_changes>>
    /\ UNCHANGED restOfGit

\* the user interrupts a running command
GitInterrupted ==
    /\ g_pc \in {"start", "fallback"}
    /\ g_runs' = Append(g_runs, GitCommand)
    /\ g_exc' = Raised("KeyboardInterrupt", <<>>)
    /\ g_pc' = "raised"
    /\ UNCHANGED <<g_target, g_base, g_failed, g_changes>>
    /\ UNCHANGED restOfGit

GitNext ==
    \/ GitCommandOk
    \/ GitParseRaises
    \/ GitDiffTimeout
    \/ GitDiffFails
    \/ GitShowFails
    \/ GitShowTimeout
    \/ GitInterrupted

GitSpecInit ==
    /\ GitInit
    /\ DiffIdle /\ RespIdle /\ ExtIdle
    /\ ReviewIdle /\ SumIdle /\ FmtIdle /\ MainIdle

SpecGit == GitSpecInit /\ [][GitNext]_vars

(***************************************************************************)
(* Vocabulary of the get_changes claim.                                    *)
(***************************************************************************)
GitEnded == g_pc \in {"returned", "raised"}

\* a base is given: not None and not the empty string
BaseGiven == ~g_base.none /\ g_base.s # <<>>

DiffFailed == g_failed # <<>> /\ g_failed[1].cmd = "diff"
ShowFailed == Len(g_failed) = 2 /\ g_failed[2].cmd = "show"

\* C20: the first command is 'git diff <base> <target>' with a base and
\* 'git diff <target>~1 <target>' without; whenever it fails, 'git show
\* <target> --format= --patch' is run and, when that succeeds, its parsed
\* output is returned; when both fail, one error is raised whose message
\* holds the stderr of both.
C20_FallbackOnFailure ==
    /\ g_runs # <<>> =>
           g_runs[1] = IF BaseGiven
                       THEN <<GIT, DIFF, g_base.s, g_target>>
                       ELSE <<GIT, DIFF, g_target \o <<"~","1">>, g_target>>
    /\ (GitEnded /\ DiffFailed) =>
           /\ Len(g_runs) = 2
           /\ g_runs[2] = <<GIT, SHOW, g_target, FORMAT_, PATCH>>
           /\ g_pc = "returned" => g_changes.src = "show"
    /\ (GitEnded /\ DiffFailed /\ ShowFailed) =>
           /\ g_pc = "raised"
           /\ \E i, k \in 1..Len(g_exc.msg) :
                  /\ g_exc.msg[i] = g_failed[1].stderr
                  /\ g_exc.msg[k] = g_failed[2].stderr


\* the command that ended get_changes is one that failed or timed out
LastCommandFailed == g_runs # <<>> /\ Len(g_failed) = Len(g_runs)

\* C21: every failure or timeout of the diff command or of the fallback
\* show command leaves get_changes as GitAnalysisError, never as another
\* exception type.
C21_FailuresAreGitAnalysisError ==
    (g_pc = "raised" /\ LastCommandFailed) => g_exc.type = "GitAnalysisError"


(***************************************************************************)
(* main() of review.py: the try block of lines 76-111 and its handlers.    *)
(* get_changes, review and format run as the machines above; the other     *)
(* stages are steps of main that complete, raise or are interrupted.       *)
(***************************************************************************)
\* lines 113-127: the exit code returned for an exception raised in the try
\* block, -1 when no handler matches
ExitCodeFor(exc) ==
    IF exc \in CodeReviewErrors THEN 1
    ELSE IF exc = "KeyboardInterrupt" THEN 130
    ELSE IF CatchesException(exc) THEN 1
    ELSE -1

\* what the constructors and the file operations of a stage can raise
StageRaises(stage) ==
    CASE stage = "start"         -> {"GitAnalysisError"}
      [] stage = "build"         -> {"OSError"}
      [] stage = "init_reviewer" -> {"InvalidAPIKeyError", "LLMReviewError"}
      [] stage = "write"         -> {"OSError"}
      [] stage = "opened"        -> {"OSError"}
      [] OTHER                   -> {}

\* the stages in which main itself runs
OwnStages == {"start", "build", "init_reviewer", "write", "opened"}

\* a write that stops after the header of the output
WrittenTruncated(output) == Output("partial", <<>>)

\* lines 106 and 109: the whole output is written
WrittenText(output) == output

Running == exit_code = -1

MainInit ==
    /\ m_pc = "start"
    /\ m_format \in OUTPUT_FORMATS
    /\ m_output \in BOOLEAN
    /\ m_stdout = NoOutput
    /\ m_file = NoOutput
    /\ m_exc = NoExc
    /\ exit_code = -1

mainArgs == <<m_format, m_output>>

\* lines 79-80: GitAnalyzer() and the call of get_changes
MainStart ==
    /\ Running /\ m_pc = "start"
    /\ g_pc' = "start"
    /\ g_target' \in Targets
    /\ g_base' \in Bases
    /\ m_pc' = "get_changes"
    /\ UNCHANGED <<g_runs, g_failed, g_changes, g_exc>>
    /\ UNCHANGED <<mainArgs, m_stdout, m_file, m_exc, exit_code>>
    /\ UNCHANGED <<diffVars, respVars, extVars, reviewVars, sumVars, fmtVars>>

\* a stage of main raises and a handler of lines 113-127 returns
MainStageRaises ==
    /\ Running /\ m_pc \in OwnStages
    /\ \E exc \in StageRaises(m_pc) :
           /\ m_exc' = exc
           /\ exit_code' = ExitCodeFor(exc)
    /\ UNCHANGED <<m_pc, mainArgs, m_stdout, m_file>>
    /\ UNCHANGED <<diffVars, respVars, extVars, gitVars, reviewVars, sumVars, fmtVars>>

\* the user interrupts a stage of main, or the formatting
MainInterrupted ==
    /\ Running
    /\ \/ m_pc \in OwnStages
       \/ m_pc = "format" /\ pc_fmt = "returned"
    /\ m_exc' = "KeyboardInterrupt"
    /\ exit_code' = ExitCodeFor("KeyboardInterrupt")
    /\ UNCHANGED <<m_pc, mainArgs, m_stdout, m_file>>
    /\ UNCHANGED <<diffVars, respVars, extVars, gitVars, reviewVars, sumVars, fmtVars>>

\* get_changes or review raised
MainCalleeRaised ==
    /\ Running
    /\ \/ m_pc = "get_changes" /\ g_pc = "raised"
       \/ m_pc = "review" /\ rv_pc = "raised"
    /\ LET exc == IF m_pc = "get_changes" THEN g_exc.type ELSE rv_exc
       IN  /\ m_exc' = exc
           /\ exit_code' = ExitCodeFor(exc)
    /\ UNCHANGED <<m_pc, mainArgs, m_stdout, m_file>>
    /\ UNCHANGED <<diffVars, respVars, extVars, gitVars, reviewVars, sumVars, fmtVars>>

\* lines 82-86
MainGetChangesReturned ==
    /\ Running /\ m_pc = "get_changes" /\ g_pc = "returned"
    /\ IF g_changes.changes = <<>>
       THEN /\ exit_code' = 0
            /\ m_pc' = "no_changes"
       ELSE /\ m_pc' = "build"
            /\ UNCHANGED exit_code
    /\ UNCHANGED <<mainArgs, m_stdout, m_file, m_exc>>
    /\ UNCHANGED <<diffVars, respVars, extVars, gitVars, reviewVars, sumVars, fmtVars>>

\* lines 90-91: build_contexts returns one context per change, in order
MainBuildContexts ==
    /\ Running /\ m_pc = "build"
    /\ contexts' = g_changes.changes
    /\ m_pc' = "init_reviewer"
    /\ UNCHANGED <<rv_pc, rv_i, all_issues, llm_calls, file_outcome, rv_result,
                   rv_exc>>
    /\ UNCHANGED <<mainArgs, m_stdout, m_file, m_exc, exit_code>>
    /\ UNCHANGED <<diffVars, respVars, extVars, gitVars, sumVars, fmtVars>>

\* lines 95-96: LLMReviewer() and the call of review
MainCallReview ==
    /\ Running /\ m_pc = "init_reviewer"
    /\ rv_pc' = "start"
    /\ m_pc' = "review"
    /\ UNCHANGED <<contexts, rv_i, all_issues, llm_calls, file_outcome,
                   rv_result, rv_exc>>
    /\ UNCHANGED <<mainArgs, m_stdout, m_file, m_exc, exit_code>>
    /\ UNCHANGED <<diffVars, respVars, extVars, gitVars, sumVars, fmtVars>>

\* lines 99-100: the call of format
MainCallFormat ==
    /\ Running /\ m_pc = "review" /\ rv_pc = "returned"
    /\ f_result' = rv_result
    /\ f_type' = m_format
    /\ pc_fmt' = "start"
    /\ m_pc' = "format"
    /\ UNCHANGED <<f_out, f_exc>>
    /\ UNCHANGED <<mainArgs, m_stdout, m_file, m_exc, exit_code>>
    /\ UNCHANGED <<diffVars, respVars, extVars, gitVars, reviewVars, sumVars>>

\* line 102
MainFormatReturned ==
    /\ Running /\ m_pc = "format" /\ pc_fmt = "returned"
    /\ m_pc' = "write"
    /\ UNCHANGED <<mainArgs, m_stdout, m_file, m_exc, exit_code>>
    /\ UNCHANGED <<diffVars, respVars, extVars, gitVars, reviewVars, sumVars, fmtVars>>

\* lines 108-111: print and return 0
MainPrint ==
    /\ Running /\ m_pc = "write" /\ ~m_output
    /\ m_stdout' = WrittenText(f_out)
    /\ exit_code' = 0
    /\ m_pc' = "done"
    /\ UNCHANGED <<mainArgs, m_file, m_exc>>
    /\ UNCHANGED <<diffVars, respVars, extVars, gitVars, reviewVars, sumVars, fmtVars>>

\* lines 103-105: the file is created empty
MainOpenFile ==
    /\ Running /\ m_pc = "write" /\ m_output
    /\ m_file' = Output("empty", <<>>)
    /\ m_pc' = "opened"
    /\ UNCHANGED <<mainArgs, m_stdout, m_exc, exit_code>>
    /\ UNCHANGED <<diffVars, respVars, extVars, gitVars, reviewVars, sumVars, fmtVars>>

\* lines 106-111: write and return 0
MainWriteFile ==
    /\ Running /\ m_pc = "opened"
    /\ m_file' = WrittenText(f_out)
    /\ exit_code' = 0
    /\ m_pc' = "done"
    /\ UNCHANGED <<mainArgs, m_stdout, m_exc>>
    /\ UNCHANGED <<diffVars, respVars, extVars, gitVars, reviewVars, sumVars, fmtVars>>

MainNext ==
    \/ MainStart
    \/ MainStageRaises
    \/ MainInterrupted
    \/ MainCalleeRaised
    \/ MainGetChangesReturned
    \/ MainBuildContexts
    \/ MainCallReview
    \/ MainCallFormat
    \/ MainFormatReturned
    \/ MainPrint
    \/ MainOpenFile
    \/ MainWriteFile
    \/ GitCommandOk
    \/ GitParseRaises
    \/ GitDiffTimeout
    \/ GitDiffFails
    \/ GitShowFails
    \/ GitShowTimeout
    \/ GitInterrupted
    \/ ReviewBegin
    \/ ReviewSkipFile
    \/ ReviewFileOk
    \/ ReviewFileRaises
    \/ ReviewReturn
    \/ FormatTerminal
    \/ FormatMarkdown
    \/ FormatJson

MainSpecInit ==
    /\ MainInit
    /\ DiffIdle /\ RespIdle /\ ExtIdle
    /\ GitIdle /\ ReviewIdle /\ SumIdle /\ FmtIdle

SpecMain == MainSpecInit /\ [][MainNext]_vars


(***************************************************************************)
(* Vocabulary of the claims about a run of main.                           *)
(***************************************************************************)
Ended == exit_code # -1

\* something was written to stdout or to the output file
Written == m_stdout.kind # "none" \/ m_file.kind # "none"

\* the user interrupted a per-file LLM call
InterruptedInFile ==
    \E i \in 1..Len(file_outcome) : file_outcome[i].exc = "KeyboardInterrupt"

\* C14: every ReviewResult has total_issues = len(issues), and the object
\* rendered as JSON has total_issues equal to the length of its issues
\* array, which holds every issue of the result.
C14_TotalIssuesIsCount ==
    /\ rv_pc = "returned" => rv_result.total_issues = Len(rv_result.issues)
    /\ (pc_fmt = "returned" /\ f_type = "json") =>
           /\ f_out.body.total_issues = Len(f_out.body.issues)
           /\ Len(f_out.body.issues) = Len(f_result.issues)

\* a result of three issues was rendered as JSON
C14_Witness ==
    /\ pc_fmt = "returned"
    /\ f_type = "json"
    /\ Len(rv_result.issues) = 3
    /\ f_out.body.total_issues = 3

\* C15: output is written only after get_changes, the context building, the
\* review of every file and the formatting have completed, and it is the
\* whole formatted output; a run that ends at an earlier point, or in which
\* a per-file LLM call is interrupted, writes nothing.
C15_NoPartialOutput ==
    /\ Written =>
           /\ g_pc = "returned"
           /\ Len(contexts) = Len(g_changes.changes)
           /\ rv_pc = "returned"
           /\ Len(file_outcome) = Len(contexts)
           /\ pc_fmt = "returned"
           /\ m_pc \in {"write", "opened", "done"}
    /\ m_stdout.kind # "none" =>
           m_stdout.kind = f_out.kind /\ m_stdout = f_out
    /\ m_file.kind \notin {"none", "empty"} =>
           m_file.kind = f_out.kind /\ m_file = f_out
    /\ (Ended /\ m_pc \notin {"write", "opened", "done"}) => ~Written
    /\ InterruptedInFile => ~Written

\* a run interrupted in the LLM call of its third file, after the first file
\* gave issues, ended with nothing written
C15_Witness ==
    /\ Ended
    /\ Len(file_outcome) = 3
    /\ file_outcome[3].exc = "KeyboardInterrupt"
    /\ all_issues # <<>>
    /\ ~Written

\* C16: main returns 0 exactly when the pipeline completes or there are no
\* changes, 1 when an error is raised, 130 when the user interrupts; an
\* interrupt of a per-file LLM call leaves review and gives 130.
C16_ExitCodes ==
    /\ exit_code \in {-1, 0, 1, 130}
    /\ exit_code = 0 <=> m_pc \in {"done", "no_changes"}
    /\ m_pc = "no_changes" => g_changes.changes = <<>>
    /\ m_pc = "done" => Written
    /\ exit_code = 1 <=> (Ended /\ m_exc \in Exceptions)
    /\ exit_code = 130 <=> (Ended /\ m_exc = "KeyboardInterrupt")
    /\ (Ended /\ g_pc = "raised") =>
           exit_code = IF g_exc.type = "KeyboardInterrupt" THEN 130 ELSE 1
    /\ InterruptedInFile => rv_pc = "raised" /\ rv_exc = "KeyboardInterrupt"
    /\ (Ended /\ InterruptedInFile) => exit_code = 130

\* the review of the first file failed, the LLM call of the third file was
\* interrupted, and main returned 130
C16_Witness ==
    /\ exit_code = 130
    /\ m_pc = "review"
    /\ Len(file_outcome) = 3
    /\ file_outcome[1].kind = "failed"
    /\ file_outcome[3].exc = "KeyboardInterrupt"


(***************************************************************************)
(* LLMReviewer.__init__ and the chat-completion request of                 *)
(* _review_file_change.  A temperature is modelled in hundredths: 30 is    *)
(* 0.3 and 200 is 2.0.                                                     *)
(***************************************************************************)
MaxRequests == 2

GSK_ == <<"g","s","k","_">>

\* x or y of Python for an Optional[str] x and a str y
OrElse(x, y) == IF Truthy(x) THEN x ELSE Some(y)

\* a validation that does not look at the prefix
ApiKeyErrorWithoutPrefix(api_key) ==
    IF ~Truthy(api_key) THEN "missing"
    ELSE IF Len(api_key.s) < 20 THEN "too_short"
    ELSE "ok"

\* validate_api_key of reviewer/utils/validators.py: which of its three
\* errors it raises, or "ok" when it returns the key
ApiKeyError(api_key) ==
    IF ~Truthy(api_key) THEN "missing"
    ELSE IF Len(api_key.s) < 20 THEN "too_short"
    ELSE IF ~StartsWith(api_key.s, GSK_) THEN "bad_prefix"
    ELSE "ok"

\* validate_temperature and validate_max_tokens of reviewer/utils/validators.py
\* return their argument; otherwise they raise ValueError
TemperatureValid(temperature) == 0 <= temperature /\ temperature <= 200
MaxTokensValid(max_tokens) == ~(max_tokens < 1 \/ max_tokens > 32000)

Xs(n) == [i \in 1..n |-> "x"]
K_valid    == GSK_ \o Xs(16)
K_19       == GSK_ \o Xs(15)
K_noprefix == Xs(20)
K_short    == <<"s","h","o","r","t">>

ApiKeyArgs ==
    {None, Some(<<>>), Some(K_short), Some(K_19), Some(K_noprefix),
     Some(K_valid)}
EnvKeys == {<<>>, K_noprefix, K_valid}
Temperatures == {-1, 0, 30, 200, 201}
MaxTokens == {0, 1, 2000, 32000, 32001}

\* line 75: api_key or GROQ_API_KEY
EffectiveKey == OrElse(k_arg, k_env)

CfgInit ==
    /\ k_pc = "start"
    /\ k_env \in EnvKeys
    /\ k_arg \in ApiKeyArgs
    /\ k_temperature \in Temperatures
    /\ k_max_tokens \in MaxTokens
    /\ k_self = Unset
    /\ k_client = FALSE
    /\ k_requests = <<>>
    /\ k_exc = NoExc

restOfCfg == <<diffVars, respVars, pipeVars, ctxVars, chatVars>>
cfgArgs == <<k_env, k_arg, k_temperature, k_max_tokens>>

\* line 75: validate_api_key raises
ReviewerInitKeyRejected ==
    /\ k_pc = "start"
    /\ ApiKeyError(EffectiveKey) # "ok"
    /\ k_exc' = "InvalidAPIKeyError"
    /\ k_pc' = "raised"
    /\ UNCHANGED <<cfgArgs, k_self, k_client, k_requests>>
    /\ UNCHANGED restOfCfg

\* lines 75-78: the fields of the new object
ReviewerSelf ==
    [api_key |-> EffectiveKey.s, temperature |-> k_temperature,
     max_tokens |-> k_max_tokens]

\* lines 75-81: the key is accepted and the client is created
ReviewerInitOk ==
    /\ k_pc = "start"
    /\ ApiKeyError(EffectiveKey) = "ok"
    /\ k_self' = ReviewerSelf
    /\ k_client' = TRUE
    /\ k_pc' = "constructed"
    /\ UNCHANGED <<cfgArgs, k_requests, k_exc>>
    /\ UNCHANGED restOfCfg

\* lines 80-83: Groq() raises
ReviewerInitClientFails ==
    /\ k_pc = "start"
    /\ ApiKeyError(EffectiveKey) = "ok"
    /\ k_self' = ReviewerSelf
    /\ k_exc' = "LLMReviewError"
    /\ k_pc' = "raised"
    /\ UNCHANGED <<cfgArgs, k_client, k_requests>>
    /\ UNCHANGED restOfCfg

\* lines 151-181 of _review_file_change: client.chat.completions.create is
\* called with self.temperature and self.max_tokens
ReviewerRequest ==
    /\ k_pc = "constructed"
    /\ Len(k_requests) < MaxRequests
    /\ k_requests' = Append(k_requests,
                            [temperature |-> k_self.temperature,
                             max_tokens |-> k_self.max_tokens])
    /\ UNCHANGED <<cfgArgs, k_pc, k_self, k_client, k_exc>>
    /\ UNCHANGED restOfCfg

CfgNext ==
    \/ ReviewerInitKeyRejected
    \/ ReviewerInitOk
    \/ ReviewerInitClientFails
    \/ ReviewerRequest

CfgSpecInit ==
    /\ CfgInit
    /\ DiffIdle /\ RespIdle /\ GitIdle /\ ReviewIdle /\ SumIdle /\ FmtIdle
    /\ MainIdle /\ CtxIdle /\ ChatIdle

SpecReviewer == CfgSpecInit /\ [][CfgNext]_vars

\* C22: a reviewer given a temperature outside [0.0, 2.0] or a max_tokens
\* outside [1, 32000] fails before any chat-completion request: it is never
\* constructed and sends no request.
C22_InvalidConfigNeverCalls ==
    (~TemperatureValid(k_temperature) \/ ~MaxTokensValid(k_max_tokens)) =>
        /\ k_pc # "constructed"
        /\ k_requests = <<>>

\* the key that validate_api_key is given is non-empty, has at least 20
\* characters and starts with gsk_
KeyWellFormed ==
    /\ ~EffectiveKey.none
    /\ EffectiveKey.s # <<>>
    /\ Len(EffectiveKey.s) >= 20
    /\ SubSeq(EffectiveKey.s, 1, 4) = <<"g","s","k","_">>

\* C23: the key is accepted exactly when it is non-empty, at least 20
\* characters long and starts with gsk_; otherwise the constructor raises
\* InvalidAPIKeyError with no client created and no request sent.
C23_ApiKeyValidation ==
    /\ k_pc \in {"constructed", "raised"} =>
           (k_exc = "InvalidAPIKeyError" <=> ~KeyWellFormed)
    /\ k_exc = "InvalidAPIKeyError" => ~k_client /\ k_requests = <<>>
    /\ (k_client \/ k_requests # <<>>) => KeyWellFormed

\* a key of 20 characters without the prefix was rejected
C23_Witness ==
    /\ k_pc = "raised"
    /\ k_exc = "InvalidAPIKeyError"
    /\ Len(EffectiveKey.s) = 20
    /\ ~k_client


(***************************************************************************)
(* ContextBuilder.build_contexts.  What the regular expressions find is    *)
(* input data: a change carries the function and class names found in its  *)
(* diff, and a file on disk the imports found in its content.  The         *)
(* related_code dict is modelled by the set of its keys.                   *)
(***************************************************************************)
MaxChanges == 3

Change(path, change_type, functions, classes) ==
    [path |-> path, change_type |-> change_type, functions |-> functions,
     classes |-> classes]

ChangeCatalogue ==
    {Change(<<"a">>, ChangeType.MODIFIED, {"f"}, {}),
     Change(<<"b">>, ChangeType.DELETED, {"g"}, {"G"}),
     Change(<<"c">>, ChangeType.ADDED, {"h"}, {"K"})}

DiskPaths == {<<"a">>, <<"b">>, <<"c">>}

\* _extract_imports on the content of the file at path
ImportsOf(path) ==
    IF path = <<"a">> THEN <<"os", "m">>
    ELSE IF path = <<"b">> THEN <<"m">>
    ELSE <<"n">>

\* the imports _resolve_import_path finds a readable file for
Resolvable == {"m"}

\* lines 126-142: the keys of the dict _get_related_code returns
RelatedKeys(imports) ==
    {imports[i] : i \in {k \in 1..Len(imports) : k <= 5 /\ imports[k] \in Resolvable}}

\* lines 32-38: the context every change starts with
BuiltContext(change) ==
    [file_change |-> change, related_code |-> {}, imports |-> <<>>,
     modified_functions |-> {}, modified_classes |-> {}]

\* a builder that reads deleted files too
ReadsDeleted(change) == FALSE

\* line 41: if change.change_type == 'deleted'
IsDeletedChange(change) == change.change_type = "deleted"

\* lines 49-65: the context of a change whose file was read
FilledContext(change, full_context) ==
    [file_change |-> change,
     related_code |-> IF full_context THEN RelatedKeys(ImportsOf(change.path))
                      ELSE {},
     imports |-> ImportsOf(change.path),
     modified_functions |-> change.functions,
     modified_classes |-> change.classes]

CtxInit ==
    /\ cb_pc = "loop"
    /\ cb_changes \in SeqsUpTo(ChangeCatalogue, MaxChanges)
    /\ cb_full \in BOOLEAN
    /\ cb_files \in SUBSET DiskPaths
    /\ cb_i = 1
    /\ cb_contexts = <<>>
    /\ cb_reads = <<>>
    /\ cb_exc = NoExc

restOfCtx == <<diffVars, respVars, pipeVars, cfgVars, chatVars>>
ctxArgs == <<cb_changes, cb_full, cb_files>>

\* lines 40-43: a deleted change gets the empty context
BuildDeleted ==
    /\ cb_pc = "loop" /\ cb_i <= Len(cb_changes)
    /\ IsDeletedChange(cb_changes[cb_i])
    /\ cb_contexts' = Append(cb_contexts, BuiltContext(cb_changes[cb_i]))
    /\ cb_i' = cb_i + 1
    /\ UNCHANGED <<ctxArgs, cb_pc, cb_reads, cb_exc>>
    /\ UNCHANGED restOfCtx

\* lines 45-48 and 67: the file does not exist
BuildAbsent ==
    /\ cb_pc = "loop" /\ cb_i <= Len(cb_changes)
    /\ ~IsDeletedChange(cb_changes[cb_i])
    /\ cb_changes[cb_i].path \notin cb_files
    /\ cb_contexts' = Append(cb_contexts, BuiltContext(cb_changes[cb_i]))
    /\ cb_i' = cb_i + 1
    /\ UNCHANGED <<ctxArgs, cb_pc, cb_reads, cb_exc>>
    /\ UNCHANGED restOfCtx

\* lines 48-67: the file exists and is read
BuildRead ==
    /\ cb_pc = "loop" /\ cb_i <= Len(cb_changes)
    /\ ~IsDeletedChange(cb_changes[cb_i])
    /\ cb_changes[cb_i].path \in cb_files
    /\ cb_reads' = Append(cb_reads, cb_changes[cb_i].path)
    /\ cb_contexts' =
           Append(cb_contexts, FilledContext(cb_changes[cb_i], cb_full))
    /\ cb_i' = cb_i + 1
    /\ UNCHANGED <<ctxArgs, cb_pc, cb_exc>>
    /\ UNCHANGED restOfCtx

\* line 49: open raises (a directory, no permission); build_contexts has no
\* handler
BuildReadRaises ==
    /\ cb_pc = "loop" /\ cb_i <= Len(cb_changes)
    /\ ~IsDeletedChange(cb_changes[cb_i])
    /\ cb_changes[cb_i].path \in cb_files
    /\ cb_reads' = Append(cb_reads, cb_changes[cb_i].path)
    /\ cb_exc' = "OSError"
    /\ cb_pc' = "raised"
    /\ UNCHANGED <<ctxArgs, cb_i, cb_contexts>>
    /\ UNCHANGED restOfCtx

\* line 69
BuildReturn ==
    /\ cb_pc = "loop" /\ cb_i > Len(cb_changes)
    /\ cb_pc' = "returned"
    /\ UNCHANGED <<ctxArgs, cb_i, cb_contexts, cb_reads, cb_exc>>
    /\ UNCHANGED restOfCtx

CtxNext ==
    \/ BuildDeleted
    \/ BuildAbsent
    \/ BuildRead
    \/ BuildReadRaises
    \/ BuildReturn

CtxSpecInit ==
    /\ CtxInit
    /\ DiffIdle /\ RespIdle /\ GitIdle /\ ReviewIdle /\ SumIdle /\ FmtIdle
    /\ MainIdle /\ CfgIdle /\ ChatIdle

SpecContext == CtxSpecInit /\ [][CtxNext]_vars

\* the context has empty imports, functions, classes and related code
IsEmptyContext(c) ==
    /\ c.imports = <<>>
    /\ c.modified_functions = {}
    /\ c.modified_classes = {}
    /\ c.related_code = {}

\* C25: build_contexts returns one CodeContext per FileChange, in input
\* order, each wrapping its own FileChange; the context of a Deleted change
\* and of a change whose file is absent is empty, and no file is read for a
\* Deleted change.
C25_OneContextPerChange ==
    /\ cb_pc = "returned" => Len(cb_contexts) = Len(cb_changes)
    /\ Len(cb_contexts) <= Len(cb_changes)
    /\ \A i \in 1..Len(cb_contexts) :
           /\ cb_contexts[i].file_change = cb_changes[i]
           /\ (cb_changes[i].change_type = ChangeType.DELETED
                 \/ cb_changes[i].path \notin cb_files)
                  => IsEmptyContext(cb_contexts[i])
    /\ \A k \in 1..Len(cb_reads) :
           \A i \in 1..Len(cb_changes) :
               cb_changes[i].path = cb_reads[k]
                   => cb_changes[i].change_type # ChangeType.DELETED

\* three contexts were returned: a file that was read, a deleted file that
\* is still on disk, and a file that is absent
C25_Witness ==
    /\ cb_pc = "returned"
    /\ Len(cb_contexts) = 3
    /\ cb_contexts[1].imports # <<>>
    /\ cb_changes[2].change_type = ChangeType.DELETED
    /\ cb_changes[2].path \in cb_files
    /\ cb_changes[3].change_type # ChangeType.DELETED
    /\ cb_changes[3].path \notin cb_files
    /\ cb_reads = <<cb_changes[1].path>>


(***************************************************************************)
(* ChatBot of test_chatbot/src/chatbot.py.  The initial state is the one   *)
(* after __init__ with an accepted key; chat and reset are then called in  *)
(* any order.  Temperatures are in hundredths.                             *)
(***************************************************************************)
MaxChatOps == 3

Message(role, content) == [role |-> role, content |-> content]

\* validate_message: the argument is accepted
MessageValid(message) ==
    /\ message # <<>>
    /\ Strip(message) # <<>>
    /\ ~(Len(message) > 10000)

\* validate_temperature and validate_max_tokens of the chatbot, with
\* MIN_TEMPERATURE, MAX_TEMPERATURE, MIN_TOKENS and MAX_TOKENS
ChatTemperatureValid(temperature) == 0 <= temperature /\ temperature <= 200
ChatMaxTokensValid(max_tokens) == 256 <= max_tokens /\ max_tokens <= 2048

\* lines 75-77
ChatArgsValid(message, temperature, max_tokens) ==
    /\ MessageValid(message)
    /\ ChatTemperatureValid(temperature)
    /\ ChatMaxTokensValid(max_tokens)

ChatMessages ==
    {<<>>, <<" ">>, <<"h","i">>, <<" ","y","o"," ">>, Xs(10001)}
ChatTemperatures == {-1, 70, 201}
ChatMaxTokens == {255, 1024, 2049}
SystemMessages == {None, Some(<<>>), Some(<<"S">>)}
Contents == {<<"A">>}

\* what client.chat.completions.create can raise
CreateRaises == {"ConnectionError", "KeyboardInterrupt"}

\* a chat that restores nothing
ChatCatchesNothing(e) == FALSE

\* line 111: except Exception as e
ChatCatches(e) == CatchesException(e)

\* list.pop()
Pop(lst) == SubSeq(lst, 1, Len(lst) - 1)

\* lines 80-83: the history with the user message appended
WithUser(message) == Append(c_history, Message("user", Strip(message)))

\* lines 111-114, for an exception e raised in the try block: the history
\* and the exception that leaves chat
AfterRaise(history, e) ==
    IF ChatCatches(e) THEN [history |-> Pop(history), exc |-> "APIError"]
    ELSE [history |-> history, exc |-> e]

\* lines 38-45
ChatInit ==
    /\ c_pc = "ready"
    /\ c_system \in SystemMessages
    /\ c_history = IF Truthy(c_system)
                   THEN <<Message("system", c_system.s)>> ELSE <<>>
    /\ c_call = NoCall
    /\ c_requests = 0
    /\ c_ops = 0

restOfChat == <<diffVars, respVars, pipeVars, cfgVars, ctxVars>>

ChatCallable == c_pc = "ready" /\ c_ops < MaxChatOps

\* lines 75-77: a validator raises ValueError
ChatInvalid ==
    /\ ChatCallable
    /\ \E message \in ChatMessages, temperature \in ChatTemperatures,
          max_tokens \in ChatMaxTokens :
           ~ChatArgsValid(message, temperature, max_tokens)
    /\ c_call' = Call("chat", c_history, c_requests, FALSE, "ValueError")
    /\ c_ops' = c_ops + 1
    /\ UNCHANGED <<c_pc, c_system, c_history, c_requests>>
    /\ UNCHANGED restOfChat

\* lines 75-109: the API answers
ChatOk ==
    /\ ChatCallable
    /\ \E message \in ChatMessages, temperature \in ChatTemperatures,
          max_tokens \in ChatMaxTokens, content \in Contents :
           /\ ChatArgsValid(message, temperature, max_tokens)
           /\ c_history' = Append(WithUser(message),
                                  Message("assistant", content))
    /\ c_requests' = c_requests + 1
    /\ c_call' = Call("chat", c_history, c_requests, TRUE, NoExc)
    /\ c_ops' = c_ops + 1
    /\ UNCHANGED <<c_pc, c_system>>
    /\ UNCHANGED restOfChat

\* lines 97-100 and 111-114: the API answers with no content
ChatEmpty ==
    /\ ChatCallable
    /\ \E message \in ChatMessages, temperature \in ChatTemperatures,
          max_tokens \in ChatMaxTokens :
           /\ ChatArgsValid(message, temperature, max_tokens)
           /\ LET r == AfterRaise(WithUser(message), "APIError")
              IN  /\ c_history' = r.history
                  /\ c_call' = Call("chat", c_history, c_requests, TRUE, r.exc)
    /\ c_requests' = c_requests + 1
    /\ c_ops' = c_ops + 1
    /\ UNCHANGED <<c_pc, c_system>>
    /\ UNCHANGED restOfChat

\* lines 87-94 and 111-114: create raises
ChatCreateRaises ==
    /\ ChatCallable
    /\ \E message \in ChatMessages, temperature \in ChatTemperatures,
          max_tokens \in ChatMaxTokens, e \in CreateRaises :
           /\ ChatArgsValid(message, temperature, max_tokens)
           /\ LET r == AfterRaise(WithUser(message), e)
              IN  /\ c_history' = r.history
                  /\ c_call' = Call("chat", c_history, c_requests, TRUE, r.exc)
    /\ c_requests' = c_requests + 1
    /\ c_ops' = c_ops + 1
    /\ UNCHANGED <<c_pc, c_system>>
    /\ UNCHANGED restOfChat

IsSystem(msg) == msg.role = "system"
IsNotSystem(msg) == msg.role # "system"

\* lines 116-123
ChatReset ==
    /\ ChatCallable
    /\ c_history' = SelectSeq(c_history, IsSystem)
    /\ c_call' = Call("reset", c_history, c_requests, TRUE, NoExc)
    /\ c_ops' = c_ops + 1
    /\ UNCHANGED <<c_pc, c_system, c_requests>>
    /\ UNCHANGED restOfChat

\* lines 134-144
get_message_count == Len(SelectSeq(c_history, IsNotSystem))

ChatNext ==
    \/ ChatInvalid
    \/ ChatOk
    \/ ChatEmpty
    \/ ChatCreateRaises
    \/ ChatReset

ChatSpecInit ==
    /\ ChatInit
    /\ DiffIdle /\ RespIdle /\ GitIdle /\ ReviewIdle /\ SumIdle /\ FmtIdle
    /\ MainIdle /\ CfgIdle /\ CtxIdle

SpecChat == ChatSpecInit /\ [][ChatNext]_vars

C27_HistoryAlternates ==
    LET sys == IF Truthy(c_system)
               THEN <<Message("system", c_system.s)>> ELSE <<>>
        rest == SubSeq(c_history, Len(sys) + 1, Len(c_history))
    IN  /\ IsPrefix(sys, c_history)
        /\ \A i \in 1..Len(rest) :
               rest[i].role = IF i % 2 = 1 THEN "user" ELSE "assistant"
        /\ Len(rest) % 2 = 0
        /\ get_message_count % 2 = 0
        /\ c_call.op = "reset" => get_message_count = 0

====
